---- MODULE Spec2Model ----
(***************************************************************************)
(* A model of fourten (src/fourten.go): clients built from options,        *)
(* derived clients, and Client.Call with its request building, encoding,   *)
(* transport exchange (net/http client, redirects included), HTTP error    *)
(* coercion and response decoding.                                         *)
(*                                                                         *)
(* Pointers are modelled as references into heaps (urls, headers,          *)
(* httpClients) so that sharing between a client, its children and the     *)
(* requests built from it is visible.                                      *)
(***************************************************************************)
EXTENDS Integers, Sequences, FiniteSets, TLC

\* ------------------------------------------------------------------ bounds
MaxClients == 2
MaxCalls == 2
MaxDecodes == 2
MaxDerived == 2

\* ------------------------------------------------------- program constants
defaultTimeout == 1
MaxRedirects == 10
GzipThreshold == 1024
defaultMaxAttempts == 3
PadLen == 1024
GzipOverhead == 20

defaultUserAgent == "fourten (Go HTTP Client)"

\* ------------------------------------------------------------- http.Header
HeaderNames == {"User-Agent", "Accept", "Content-Type", "Authorization", "Content-Encoding"}
Absent == "<absent>"

EmptyHeader == [h \in HeaderNames |-> Absent]

HeaderSet(H, name, value) == [H EXCEPT ![name] = value]

\* mutant: deleting a header leaves it in place
HeaderDel_keeps(H, name) == H

HeaderDel(H, name) == [H EXCEPT ![name] = Absent]

copyHeaders(base, merge) ==
    [h \in HeaderNames |-> IF merge[h] # Absent THEN merge[h] ELSE base[h]]

\* ----------------------------------------------------------------- url.URL
\* A URL is its host, its path (a sequence of characters) and its raw query.
ZeroURL == [Host |-> "", Path |-> <<>>, RawQuery |-> ""]

BaseA == [Host |-> "a", Path |-> <<"/", "a", "/">>, RawQuery |-> ""]
BaseB == [Host |-> "b", Path |-> <<"/", "b", "/">>, RawQuery |-> ""]

\* url.Parse of a base or target string: the parsed URL, or a parse error.
ParseOK(u) == [valid |-> TRUE, url |-> u]
ParseError == [valid |-> FALSE, url |-> ZeroURL]

TargetTemplate == ParseOK([Host |-> "", Path |-> <<"/", ":", "k">>, RawQuery |-> ""])
TargetRelative == ParseOK([Host |-> "", Path |-> <<"p">>, RawQuery |-> ""])
TargetQuery == ParseOK([Host |-> "", Path |-> <<"/", "p">>, RawQuery |-> "a=1"])
TargetAbsolute == ParseOK([Host |-> "c", Path |-> <<"/", "p">>, RawQuery |-> ""])
TargetTwice == ParseOK([Host |-> "", Path |-> <<"/", ":", "k", "/", ":", "k">>, RawQuery |-> ""])

LastIndex(s, c) ==
    LET hits == {i \in 1..Len(s) : s[i] = c}
    IN IF hits = {} THEN 0 ELSE CHOOSE i \in hits : \A j \in hits : j <= i

\* net/url resolvePath for paths without dot segments
resolvePath(base, ref) ==
    LET full == IF ref = <<>> THEN base
                ELSE IF ref[1] # "/" THEN SubSeq(base, 1, LastIndex(base, "/")) \o ref
                ELSE ref
    IN IF full = <<>> THEN <<>>
       ELSE IF full[1] = "/" THEN full ELSE <<"/">> \o full

\* (*url.URL).ResolveReference: always yields a fresh URL value
ResolveReference(u, ref) ==
    IF ref.Host # ""
    THEN [Host |-> ref.Host, Path |-> resolvePath(ref.Path, <<>>), RawQuery |-> ref.RawQuery]
    ELSE [Host |-> u.Host,
          Path |-> resolvePath(u.Path, ref.Path),
          RawQuery |-> IF ref.Path = <<>> /\ ref.RawQuery = "" THEN u.RawQuery ELSE ref.RawQuery]

\* url.PathEscape, character by character
EscapeChar(c) ==
    CASE c = " " -> <<"%", "2", "0">>
      [] c = "/" -> <<"%", "2", "F">>
      [] OTHER -> <<c>>

RECURSIVE PathEscape(_)
PathEscape(v) == IF v = <<>> THEN <<>> ELSE EscapeChar(Head(v)) \o PathEscape(Tail(v))

HasPrefix(s, p) == Len(s) >= Len(p) /\ SubSeq(s, 1, Len(p)) = p

\* mutant: only the first occurrence is replaced
RECURSIVE ReplaceAll_first(_, _, _)
ReplaceAll_first(s, old, new) ==
    IF s = <<>> THEN <<>>
    ELSE IF HasPrefix(s, old) THEN new \o SubSeq(s, Len(old) + 1, Len(s))
    ELSE <<Head(s)>> \o ReplaceAll_first(Tail(s), old, new)

\* strings.ReplaceAll: every non-overlapping occurrence, left to right
RECURSIVE ReplaceAll(_, _, _)
ReplaceAll(s, old, new) ==
    IF s = <<>> THEN <<>>
    ELSE IF HasPrefix(s, old)
         THEN new \o ReplaceAll(SubSeq(s, Len(old) + 1, Len(s)), old, new)
         ELSE <<Head(s)>> \o ReplaceAll(Tail(s), old, new)

\* A URLModifier applied to a URL: the modified URL, or an error.
ModOK(u) == [err |-> "nil", url |-> u]
ModErr(kind, u) == [err |-> kind, url |-> u]

Query(values) == [op |-> "Query", k |-> <<>>, v |-> <<>>, q |-> values]
QueryMap(m) == [op |-> "QueryMap", k |-> <<>>, v |-> <<>>, q |-> m]
Param(k, v) == [op |-> "Param", k |-> k, v |-> v, q |-> ""]
IntParam(k, digits) == [op |-> "IntParam", k |-> k, v |-> digits, q |-> ""]

\* mutant: Query and QueryMap overwrite the query string that is there
ApplyModifier_overwritesQuery(um, u) ==
    IF um.op \in {"Query", "QueryMap"}
    THEN [err |-> "nil", url |-> [u EXCEPT !.RawQuery = um.q]]
    ELSE LET after == ReplaceAll(u.Path, <<":">> \o um.k, PathEscape(um.v))
         IN [err |-> IF after = u.Path THEN "failed to find parameter" ELSE "nil",
             url |-> [u EXCEPT !.Path = after]]

ApplyModifier(um, u) ==
    IF um.op \in {"Query", "QueryMap"}
    THEN IF u.RawQuery # ""
         THEN ModErr("refusing to overwrite querystring", u)
         ELSE ModOK([u EXCEPT !.RawQuery = um.q])
    ELSE LET after == ReplaceAll(u.Path, <<":">> \o um.k, PathEscape(um.v))
         IN IF after = u.Path
            THEN ModErr("failed to find parameter", [u EXCEPT !.Path = after])
            ELSE ModOK([u EXCEPT !.Path = after])

\* the loop of buildRequest over the modifiers, stopping at the first error
RECURSIVE ApplyModifiers(_, _)
ApplyModifiers(ums, u) ==
    IF ums = <<>> THEN ModOK(u)
    ELSE LET r == ApplyModifier(Head(ums), u)
         IN IF r.err # "nil" THEN r ELSE ApplyModifiers(Tail(ums), r.url)

\* ------------------------------------------------------------------ bodies
\* A body is a sequence of bytes over a small JSON alphabet. "P" stands for
\* PadLen bytes of JSON string padding, "p" for four bytes less than the gzip
\* threshold of it, "\n" for the newline json.Encoder adds.
RECURSIVE ByteLen(_)
ByteLen(b) ==
    IF b = <<>> THEN 0
    ELSE IF Head(b) = "GZ" THEN GzipOverhead + Len(b) - 1
    ELSE (IF Head(b) = "P" THEN PadLen ELSE IF Head(b) = "p" THEN GzipThreshold - 4 ELSE 1)
         + ByteLen(Tail(b))

Gzip(b) == <<"GZ">> \o b

\* ---------------------------------------------------------------- encoders
\* An encoder is the stack of its layers, innermost first: <<>> is the nil
\* encoder, <<"json">> is jsonEncoder, a trailing "gzip" is the GzipRequests wrapper.
NilEncoder == <<>>

Encoding(err, body, header) ==
    [err |-> err, ContentLength |-> ByteLen(body), body |-> body, Header |-> header]

jsonEncoder(input) ==
    CASE input = "inf" -> Encoding("unsupported value", <<>>, EmptyHeader)
      [] input = "big" -> Encoding("nil", <<"[", "P", "]", "\n">>,
                                   HeaderSet(EmptyHeader, "Content-Type", "application/json; charset=utf-8"))
      [] input = "at" -> Encoding("nil", <<"[", "p", "0", "]", "\n">>,
                                  HeaderSet(EmptyHeader, "Content-Type", "application/json; charset=utf-8"))
      [] input = "below" -> Encoding("nil", <<"[", "p", "]", "\n">>,
                                     HeaderSet(EmptyHeader, "Content-Type", "application/json; charset=utf-8"))
      [] OTHER -> Encoding("nil", <<"[", "]", "\n">>,
                           HeaderSet(EmptyHeader, "Content-Type", "application/json; charset=utf-8"))

\* mutant: a body of exactly the threshold length is left as it is
GzipWrap_above(enc) ==
    IF enc.err # "nil" THEN Encoding(enc.err, <<>>, EmptyHeader)
    ELSE IF enc.ContentLength <= GzipThreshold THEN enc
    ELSE Encoding("nil", Gzip(enc.body), HeaderSet(enc.Header, "Content-Encoding", "gzip"))

GzipWrap(enc) ==
    IF enc.err # "nil" THEN Encoding(enc.err, <<>>, EmptyHeader)
    ELSE IF enc.ContentLength < GzipThreshold THEN enc
    ELSE Encoding("nil", Gzip(enc.body), HeaderSet(enc.Header, "Content-Encoding", "gzip"))

\* calling the encoder; calling through a nil function value panics
RECURSIVE RunEncoder(_, _)
RunEncoder(encoder, input) ==
    IF encoder = <<>> THEN Encoding("panic", <<>>, EmptyHeader)
    ELSE IF encoder[Len(encoder)] = "json" THEN jsonEncoder(input)
    ELSE LET inner == RunEncoder(SubSeq(encoder, 1, Len(encoder) - 1), input)
         IN IF inner.err = "panic" THEN inner ELSE GzipWrap(inner)

\* ---------------------------------------------------------------- decoders
\* A content-type header value is the sequence of the pieces it is written
\* from, so that a prefix of the text is a prefix of the sequence; <<>> is the
\* value of a missing header.
TypeMissing == <<>>
TypeHTML == <<"text/html">>
TypeJSON == <<"application/json">>
TypeJSONCharset == <<"application/json", "; charset=utf-8">>
TypeJSONLines == <<"application/json", "l">>

\* mutant: every content type passes
IsJSONContentType_any(ct) == TRUE

\* jsonDecoder's test: strings.HasPrefix(contentType, "application/json")
IsJSONContentType(ct) == HasPrefix(ct, <<"application/json">>)

\* encoding/json on the alphabet "[" "]": the first complete value of data.
\* ok: a value was read, "more": data ended inside a value, "invalid": bad byte
RECURSIVE ScanJSON(_, _, _, _)
ScanJSON(data, i, depth, afterValue) ==
    IF i > Len(data) THEN [st |-> "more", n |-> Len(data)]
    ELSE IF data[i] = "[" /\ ~afterValue THEN ScanJSON(data, i + 1, depth + 1, FALSE)
    ELSE IF data[i] = "]" /\ depth = 1 THEN [st |-> "ok", n |-> i]
    ELSE IF data[i] = "]" /\ depth > 1 THEN ScanJSON(data, i + 1, depth - 1, TRUE)
    ELSE [st |-> "invalid", n |-> i]

DecodeResult(err, cause, value) == [err |-> err, cause |-> cause, value |-> value]
Undecoded == <<"undecoded">>

\* ----------------------------------------------------------------- streams
\* kind "NoBody" is http.NoBody, "conn" a body read from the connection,
\* "mem" a reader over bytes held in memory.
\* fail: the connection breaks after data (the declared length is not met).
\* broken: the request context was cancelled before the rest arrived.
\* known: the response declares the length of the body (ContentLength >= 0).
Stream(kind, data, fail) ==
    [kind |-> kind, data |-> data, pos |-> 0, fail |-> fail,
     closes |-> 0, broken |-> FALSE, touched |-> FALSE, known |-> TRUE]

\* a body sent chunked, or decompressed by the transport: ContentLength is -1
Chunked(data, fail) == [Stream("conn", data, fail) EXCEPT !.known = FALSE]

NoBody == Stream("NoBody", <<>>, FALSE)

\* reading a stream to its end (io.Copy, ioutil.ReadAll): bytes, error, stream after
ReadToEnd(s) ==
    IF s.kind = "NoBody" THEN [bytes |-> <<>>, err |-> "nil", stream |-> s]
    ELSE IF s.closes > 0 /\ s.kind = "conn"
         THEN [bytes |-> <<>>, err |-> "read on closed response body", stream |-> s]
    ELSE IF s.broken
         THEN [bytes |-> <<>>, err |-> "context canceled", stream |-> s]
    ELSE [bytes |-> SubSeq(s.data, s.pos + 1, Len(s.data)),
          err |-> IF s.fail THEN "unexpected EOF" ELSE "nil",
          stream |-> [s EXCEPT !.pos = Len(s.data), !.touched = TRUE]]

\* a single Read(p) with a non-empty p on a stream: count and error
ReadOnce(s) ==
    IF s.kind = "NoBody" THEN [n |-> 0, err |-> "EOF"]
    ELSE IF s.closes > 0 /\ s.kind = "conn" THEN [n |-> 0, err |-> "read on closed response body"]
    ELSE IF s.broken THEN [n |-> 0, err |-> "context canceled"]
    ELSE IF s.pos < Len(s.data) THEN [n |-> Len(s.data) - s.pos, err |-> "nil"]
    ELSE [n |-> 0, err |-> IF s.fail THEN "unexpected EOF" ELSE "EOF"]

\* Close: counted on every stream; closing http.NoBody has no other effect
CloseStream(s) == [s EXCEPT !.closes = @ + 1]

\* jsonDecoder: content type first, then the first JSON value of the stream
jsonDecoder(contentType, s) ==
    IF ~IsJSONContentType(contentType)
    THEN [res |-> DecodeResult("expected JSON content-type", "none", Undecoded), stream |-> s]
    ELSE LET r == ReadToEnd(s)
             p == ScanJSON(r.bytes, 1, 0, FALSE)
         IN CASE p.st = "ok" ->
                   [res |-> DecodeResult("nil", "none", SubSeq(r.bytes, 1, p.n)), stream |-> r.stream]
              [] p.st = "invalid" ->
                   [res |-> DecodeResult("failed to decode", "invalid character", Undecoded),
                    stream |-> r.stream]
              [] OTHER ->
                   [res |-> DecodeResult("failed to decode",
                                         IF r.err # "nil" THEN r.err
                                         ELSE IF r.bytes = <<>> THEN "EOF" ELSE "unexpected EOF",
                                         Undecoded),
                    stream |-> r.stream]

\* mutant: an output always goes to the decoder, whatever the body is
handleDecoding_decodesNoBody(res, decoder, output) ==
    IF output THEN jsonDecoder(res.ContentType, res.Body)
    ELSE LET r == ReadToEnd(res.Body)
         IN [res |-> DecodeResult(r.err, "none", Undecoded), stream |-> r.stream]

\* mutant: the decoder is handed every body, also when no output was asked for
handleDecoding_alwaysDecodes(res, decoder, output) ==
    IF res.Body.kind = "NoBody" /\ output
    THEN [res |-> DecodeResult("unexpected empty response", "none", Undecoded), stream |-> res.Body]
    ELSE jsonDecoder(res.ContentType, res.Body)

\* handleDecoding: the error and decoded value, and the body stream afterwards
handleDecoding(res, decoder, output) ==
    CASE res.Body.kind = "NoBody" /\ output ->
            [res |-> DecodeResult("unexpected empty response", "none", Undecoded), stream |-> res.Body]
      [] res.Body.kind = "NoBody" /\ ~output ->
            [res |-> DecodeResult("nil", "none", Undecoded), stream |-> res.Body]
      [] res.Body.kind # "NoBody" /\ ~output ->
            LET r == ReadToEnd(res.Body)
            IN [res |-> DecodeResult(r.err, "none", Undecoded), stream |-> r.stream]
      [] OTHER -> jsonDecoder(res.ContentType, res.Body)

\* ------------------------------------------------------------------ errors
\* An error value: its kind, the kind of the error it wraps, and for an
\* *HTTPError the reference of the HTTPError object (the slot of its call).
Err(kind) == [kind |-> kind, cause |-> "none", http |-> 0]
Wrap(kind, cause) == [kind |-> kind, cause |-> cause, http |-> 0]
NoErr == Err("nil")

\* ---------------------------------------------------------------- HTTPError
NoResponse == [StatusCode |-> 0, ContentType |-> TypeMissing, Body |-> NoBody]

NoHTTPError == [Response |-> 0, hasBody |-> FALSE, body |-> <<>>, decoder |-> "nil"]

\* mutant: only 4xx and 5xx are errors
coerceHTTPError_from400(res, ref) ==
    IF res.StatusCode >= 400
    THEN [Response |-> ref, hasBody |-> FALSE, body |-> <<>>, decoder |-> "nil"]
    ELSE [Response |-> 0, hasBody |-> FALSE, body |-> <<>>, decoder |-> "nil"]

coerceHTTPError(res, ref) ==
    IF res.StatusCode >= 300
    THEN [Response |-> ref, hasBody |-> FALSE, body |-> <<>>, decoder |-> "nil"]
    ELSE NoHTTPError

\* mutant: the body is captured but the decoder is not kept with it
populateBody_unbound(e, decoder, stream) ==
    LET r == ReadToEnd(stream)
    IN [e |-> [e EXCEPT !.hasBody = TRUE, !.body = r.bytes],
        err |-> r.err, stream |-> r.stream, panic |-> ~stream.known]

\* (*HTTPError).populateBody: the error object and the stream after io.Copy.
\* make([]byte, 0, ContentLength) panics when the length is unknown (-1),
\* before anything is read.
populateBody(e, decoder, stream) ==
    LET r == ReadToEnd(stream)
    IN IF ~stream.known
       THEN [e |-> [e EXCEPT !.decoder = decoder], err |-> "nil", stream |-> stream,
             panic |-> TRUE]
       ELSE [e |-> [e EXCEPT !.decoder = decoder, !.hasBody = TRUE, !.body = r.bytes],
             err |-> r.err, stream |-> r.stream, panic |-> FALSE]

\* (*HTTPError).Error, given the response the error points to
ErrorString(res) == <<"HTTP Status", res.StatusCode>>

\* (*HTTPError).Is and errors.Is(err, ErrHTTP)
IsErrHTTP(err) == err.kind = "HTTPError" \/ err.kind = "base HTTP error"

\* AsHTTPError: the *HTTPError in the chain of err, or 0 for nil
AsHTTPError(err) == IF err.kind = "HTTPError" THEN err.http ELSE 0

\* mutant: Decode reads the capture buffer itself, which empties it
Decode_consumesBuffer(e, res, output) ==
    IF ~e.hasBody
    THEN [res |-> DecodeResult("panic", "nil pointer dereference", Undecoded), e |-> e]
    ELSE LET resp == [res EXCEPT !.Body = Stream("mem", e.body, FALSE)]
         IN [res |-> handleDecoding(resp, e.decoder, output).res, e |-> [e EXCEPT !.body = <<>>]]

\* (*HTTPError).Decode on a copy of the response whose body reads the captured
\* bytes; a nil body buffer is a nil dereference
Decode(e, res, output) ==
    IF ~e.hasBody
    THEN [res |-> DecodeResult("panic", "nil pointer dereference", Undecoded), e |-> e]
    ELSE LET resp == [res EXCEPT !.Body = Stream("mem", e.body, FALSE)]
         IN [res |-> handleDecoding(resp, e.decoder, output).res, e |-> e]

\* (*HTTPError).Body: String() of a nil *bytes.Buffer is the text "<nil>"
Body(e) == IF e.hasBody THEN e.body ELSE <<"<nil>">>

\* ------------------------------------------------------------------- state
VARIABLES
    clients,      \* the clients built so far, in order of construction
    urls,         \* heap of url.URL objects
    headers,      \* heap of http.Header maps
    httpClients,  \* heap of http.Client objects
    snap,         \* history: each client's configuration when New/Derive returned
    calls         \* the calls in progress or returned and not yet released

vars == <<clients, urls, headers, httpClients, snap, calls>>

\* References. A client owns the objects New/Derive allocates for it, a BaseURL
\* option value owns the URL it parsed, a call owns the objects of its request.
ClientRef(k) == <<"client", k>>
BaseRef(n) == <<"base", n>>
ReqRef(i) == <<"req", i>>
NilRef == <<"nil", 0>>

Bases == <<BaseA, BaseB>>

\* room for the clients of either bound
ClientSlots == IF MaxClients > MaxDerived + 1 THEN MaxClients ELSE MaxDerived + 1

Refs == {ClientRef(k) : k \in 1..ClientSlots} \cup {BaseRef(n) : n \in 1..Len(Bases)}
            \cup {ReqRef(i) : i \in 1..MaxCalls} \cup {NilRef}

NoHTTPClient == [CheckRedirect |-> "nil"]

\* ----------------------------------------------------------------- options
BaseURL(n) == [opt |-> "BaseURL", n |-> n, name |-> "", value |-> ""]
SetHeader(header, value) == [opt |-> "SetHeader", n |-> 0, name |-> header, value |-> value]
\* "Bearer " + token, for the tokens "t" and "u"
Bearer(token) == SetHeader("Authorization", IF token = "t" THEN "Bearer t" ELSE "Bearer u")
RequestTimeout(d) == [opt |-> "RequestTimeout", n |-> d, name |-> "", value |-> ""]
EncodeJSON == [opt |-> "EncodeJSON", n |-> 0, name |-> "", value |-> ""]
DecodeJSON == [opt |-> "DecodeJSON", n |-> 0, name |-> "", value |-> ""]
DontDecode == [opt |-> "DontDecode", n |-> 0, name |-> "", value |-> ""]
NoFollow == [opt |-> "NoFollow", n |-> 0, name |-> "", value |-> ""]
GzipRequests == [opt |-> "GzipRequests", n |-> 0, name |-> "", value |-> ""]

\* The retry options. RetryOnError enables retrying with the default policy;
\* the others tune a policy that is already enabled.
RetryOnError == [opt |-> "RetryOnError", n |-> 0, name |-> "", value |-> ""]
RetryMaxAttempts(K) == [opt |-> "RetryTune", n |-> K, name |-> "maxAttempts", value |-> ""]
RetryMaxDuration(D) == [opt |-> "RetryTune", n |-> D, name |-> "maxDuration", value |-> ""]
RetryDelay(d) == [opt |-> "RetryTune", n |-> d, name |-> "fixedDelay", value |-> ""]
\* exponential backoff instead of a fixed delay; its four figures are not kept
RetryBackoff == [opt |-> "RetryTune", n |-> -1, name |-> "fixedDelay", value |-> ""]

\* The retry policy of a client: off, one attempt. maxDuration 0 is no limit,
\* fixedDelay -1 is exponential backoff. panic: an option panicked on it.
NoRetry == [enabled |-> FALSE, maxAttempts |-> 1, maxDuration |-> 0, fixedDelay |-> -1,
            panic |-> FALSE]

\* mutant: a knob is set whether or not retrying is enabled
tune_unchecked(retry, knob, n) == [retry EXCEPT ![knob] = n]

\* a tuning option: sets its knob, or panics when retrying is not enabled
tune(retry, knob, n) ==
    IF retry.enabled THEN [retry EXCEPT ![knob] = n] ELSE [retry EXCEPT !.panic = TRUE]

\* A world is the client under construction and the heaps its options write.
World(c, H, HC) == [c |-> c, headers |-> H, httpClients |-> HC]

ApplyOption(o, W) ==
    LET c == W.c
        setHeader(name, value) == [W.headers EXCEPT ![c.Header] = HeaderSet(@, name, value)]
    IN CASE o.opt = "BaseURL" -> World([c EXCEPT !.URL = BaseRef(o.n)], W.headers, W.httpClients)
         [] o.opt = "SetHeader" -> World(c, setHeader(o.name, o.value), W.httpClients)
         [] o.opt = "RequestTimeout" -> World([c EXCEPT !.timeout = o.n], W.headers, W.httpClients)
         [] o.opt = "EncodeJSON" -> World([c EXCEPT !.encoder = <<"json">>], W.headers, W.httpClients)
         [] o.opt = "DecodeJSON" ->
                World([c EXCEPT !.decoder = "json"], setHeader("Accept", "application/json"),
                      W.httpClients)
         [] o.opt = "DontDecode" ->
                World([c EXCEPT !.decoder = "nil"],
                      [W.headers EXCEPT ![c.Header] = HeaderDel(@, "Accept")], W.httpClients)
         [] o.opt = "NoFollow" ->
                World(c, W.headers,
                      [W.httpClients EXCEPT ![c.httpClient].CheckRedirect = "DontFollowRedirect"])
         [] o.opt = "RetryOnError" ->
                World([c EXCEPT !.retry = [NoRetry EXCEPT !.enabled = TRUE,
                                                          !.maxAttempts = defaultMaxAttempts]],
                      W.headers, W.httpClients)
         [] o.opt = "RetryTune" ->
                World([c EXCEPT !.retry = tune(@, o.name, o.n)], W.headers, W.httpClients)
         [] OTHER -> World([c EXCEPT !.encoder = Append(@, "gzip")], W.headers, W.httpClients)

RECURSIVE ApplyOptions(_, _)
ApplyOptions(opts, W) ==
    IF opts = <<>> \/ W.c.retry.panic THEN W
    ELSE ApplyOptions(Tail(opts), ApplyOption(Head(opts), W))

\* the configuration a client denotes, its references followed
View(k) ==
    LET c == clients[k]
    IN [URL |-> urls[c.URL], Header |-> headers[c.Header], timeout |-> c.timeout,
        encoder |-> c.encoder, decoder |-> c.decoder, retry |-> c.retry,
        CheckRedirect |-> httpClients[c.httpClient].CheckRedirect]

ViewIn(c, U, H, HC) ==
    [URL |-> U[c.URL], Header |-> H[c.Header], timeout |-> c.timeout,
     encoder |-> c.encoder, decoder |-> c.decoder, retry |-> c.retry,
     CheckRedirect |-> HC[c.httpClient].CheckRedirect]

\* construction k returned a client: no option panicked
Built(k) == k \in 1..Len(clients) /\ ~clients[k].retry.panic

\* --------------------------------------------------------------------- New
New(opts) ==
    /\ Len(clients) < ClientSlots
    /\ LET k == Len(clients) + 1
           c == [URL |-> ClientRef(k), Header |-> ClientRef(k), timeout |-> defaultTimeout,
                 encoder |-> NilEncoder, decoder |-> "nil", httpClient |-> ClientRef(k),
                 parent |-> 0, retry |-> NoRetry]
           U == [urls EXCEPT ![ClientRef(k)] = ZeroURL]
           H == [headers EXCEPT ![ClientRef(k)] = HeaderSet(EmptyHeader, "User-Agent", defaultUserAgent)]
           HC == [httpClients EXCEPT ![ClientRef(k)] = NoHTTPClient]
           W == ApplyOptions(opts, World(c, H, HC))
       IN /\ clients' = Append(clients, W.c)
          /\ urls' = U
          /\ headers' = W.headers
          /\ httpClients' = W.httpClients
          /\ snap' = Append(snap, ViewIn(W.c, U, W.headers, W.httpClients))
    /\ UNCHANGED calls

\* ------------------------------------------------------------------ Derive
\* mutant: the derived client shares the parent's http.Client
derivedHTTPClient_shared(c, k) == c.httpClient

\* where the derived client's http.Client lives: a copy of the parent's
derivedHTTPClient(c, k) == ClientRef(k)

\* where the derived client's header map lives: a clone of the parent's
derivedHeader(c, k) == ClientRef(k)

Derive(p, opts) ==
    /\ Built(p)
    /\ Len(clients) < ClientSlots
    /\ LET k == Len(clients) + 1
           c == clients[p]
           d == [URL |-> ClientRef(k), Header |-> derivedHeader(c, k), timeout |-> c.timeout,
                 encoder |-> c.encoder, decoder |-> c.decoder,
                 httpClient |-> derivedHTTPClient(c, k), parent |-> p, retry |-> c.retry]
           U == [urls EXCEPT ![ClientRef(k)] = ResolveReference(urls[c.URL], ZeroURL)]
           H == [headers EXCEPT ![d.Header] = headers[c.Header]]
           HC == [httpClients EXCEPT ![d.httpClient] = httpClients[c.httpClient]]
           W == ApplyOptions(opts, World(d, H, HC))
       IN /\ clients' = Append(clients, W.c)
          /\ urls' = U
          /\ headers' = W.headers
          /\ httpClients' = W.httpClients
          /\ snap' = Append(snap, ViewIn(W.c, U, W.headers, W.httpClients))
    /\ UNCHANGED calls

\* ------------------------------------------------------------------- calls
NoRequest ==
    [Method |-> "", URL |-> NilRef, Header |-> NilRef, ContentLength |-> 0, body |-> <<>>,
     GetBody |-> <<>>]

\* the request net/http is sending at the moment: the original one, or the one
\* it built for the latest redirect
NoAttempt == [Method |-> "", URL |-> ZeroURL, body |-> <<>>]

NoArgs == [target |-> ParseError, ums |-> <<>>]

NoRead == [done |-> FALSE, bytes |-> <<>>, err |-> "nil"]

\* The caller's context: context.Background(), or a context whose deadline is d
\* ticks after the call starts.
Background == [hasDeadline |-> FALSE, deadline |-> 0]
WithDeadline(d) == [hasDeadline |-> TRUE, deadline |-> d]

Result(resRef, err) == [res |-> resRef, err |-> err]

IdleCall ==
    [pc |-> "idle", client |-> 0, method |-> "", input |-> "nil", output |-> FALSE,
     args |-> NoArgs, req |-> NoRequest, attempt |-> NoAttempt, sent |-> 0, getBodyCalls |-> 0,
     ctx |-> Background, deadline |-> 0, elapsed |-> 0, redirects |-> 0, lastStatus |-> 0,
     delivered |-> FALSE, res |-> NoResponse, httpErr |-> NoHTTPError,
     ret |-> Result(0, NoErr), out |-> Undecoded, decodes |-> <<>>, callerRead |-> NoRead]

\* Client.GET, HEAD, POST: the arguments each wrapper hands to Call
Invocation(method, input, output) ==
    [method |-> method, input |-> input, output |-> output, ctx |-> Background]
\* the same call made with another context
WithContext(ctx, inv) == [inv EXCEPT !.ctx = ctx]
GET(output) == Invocation("GET", "nil", output)
HEAD == Invocation("HEAD", "nil", FALSE)
POST(input, output) == Invocation("POST", input, output)

\* mutant: the request uses the client's header map itself
requestHeader_aliased(c, i) == c.Header

\* where buildRequest puts the request's header map: a clone of the client's
requestHeader(c, i) == ReqRef(i)

\* where buildRequest puts the request's URL: the URL ResolveReference returns
requestURL(c, i) == ReqRef(i)

\* Call's first check: an output was asked for and there is no decoder
needsDecoder(c, inv) == inv.output /\ c.decoder = "nil"

\* mutant: setupEncoding encodes whatever the input is
encodesInput_always(inv) == TRUE

\* setupEncoding: a non-nil input means the input is encoded
encodesInput(inv) == inv.input # "nil"

\* mutant: setupEncoding does not look for the encoder before calling it
needsEncoder_never(c, inv) == FALSE

\* setupEncoding's check: an input was given and there is no encoder
needsEncoder(c, inv) == inv.input # "nil" /\ c.encoder = NilEncoder

\* mutant: the body opener hands out a reader that has already been read
getBody_spent(enc) == <<>>

\* what the request's GetBody yields each time it is called: the encoded bytes
getBody(enc) == enc.body

\* mutant: the timeout is put on a fresh background context
attemptDeadline_ignoresCaller(timeout, ctx) == IF timeout < 0 THEN 0 ELSE timeout

\* context.WithTimeout(ctx, c.timeout): the earlier of the caller's deadline and
\* the timeout, in ticks from now; a timeout that is not positive has expired
attemptDeadline(timeout, ctx) ==
    LET own == IF timeout < 0 THEN 0 ELSE timeout
    IN IF ctx.hasDeadline /\ ctx.deadline < own THEN ctx.deadline ELSE own

\* Call up to the moment the request is handed to httpClient.Do: the early
\* returns of Call, buildRequest and setupEncoding.
CallStart(i, k, inv, target, ums) ==
    /\ calls[i].pc = "idle"
    /\ Built(k)
    /\ LET c == clients[k]
           call == [IdleCall EXCEPT !.client = k, !.method = inv.method, !.input = inv.input,
                                    !.output = inv.output, !.ctx = inv.ctx,
                                    !.args = [target |-> target, ums |-> ums]]
           return(err) == [call EXCEPT !.pc = "returned", !.ret = Result(0, err)]
           hdr == requestHeader(c, i)
           url == requestURL(c, i)
           U0 == [urls EXCEPT ![url] = ResolveReference(urls[c.URL], target.url)]
           m == ApplyModifiers(ums, U0[url])
           U == [U0 EXCEPT ![url] = m.url]
           H0 == [headers EXCEPT ![hdr] = headers[c.Header]]
           enc == RunEncoder(c.encoder, inv.input)
           withBody == encodesInput(inv)
           H == IF withBody THEN [H0 EXCEPT ![hdr] = copyHeaders(@, enc.Header)] ELSE H0
           req == [Method |-> inv.method, URL |-> url, Header |-> hdr,
                   ContentLength |-> IF withBody THEN enc.ContentLength ELSE 0,
                   body |-> IF withBody THEN enc.body ELSE <<>>,
                   GetBody |-> IF withBody THEN getBody(enc) ELSE <<>>]
       IN CASE needsDecoder(c, inv) ->
                 /\ calls' = [calls EXCEPT ![i] = return(Err("output requested but no decoder configured"))]
                 /\ UNCHANGED <<urls, headers>>
            [] ~needsDecoder(c, inv) /\ ~target.valid ->
                 /\ calls' = [calls EXCEPT ![i] = return(Err("parse"))]
                 /\ UNCHANGED <<urls, headers>>
            [] ~needsDecoder(c, inv) /\ target.valid /\ m.err # "nil" ->
                 /\ calls' = [calls EXCEPT ![i] = return(Err(m.err))]
                 /\ urls' = U
                 /\ headers' = H0
            [] ~needsDecoder(c, inv) /\ target.valid /\ m.err = "nil"
                    /\ needsEncoder(c, inv) ->
                 /\ calls' = [calls EXCEPT ![i] = return(Err("input requested but no encoder configured"))]
                 /\ urls' = U
                 /\ headers' = H0
            [] ~needsDecoder(c, inv) /\ target.valid /\ m.err = "nil"
                    /\ withBody /\ ~needsEncoder(c, inv) /\ enc.err = "panic" ->
                 /\ calls' = [calls EXCEPT ![i] = [call EXCEPT !.pc = "panic"]]
                 /\ urls' = U
                 /\ headers' = H0
            [] ~needsDecoder(c, inv) /\ target.valid /\ m.err = "nil"
                    /\ withBody /\ ~needsEncoder(c, inv) /\ enc.err \notin {"nil", "panic"} ->
                 /\ calls' = [calls EXCEPT ![i] = return(Wrap("failed to encode", enc.err))]
                 /\ urls' = U
                 /\ headers' = H0
            [] OTHER ->
                 /\ calls' = [calls EXCEPT ![i] =
                        [call EXCEPT !.pc = "inflight", !.req = req,
                                     !.attempt = [Method |-> req.Method, URL |-> U[url], body |-> req.body],
                                     !.sent = 1,
                                     !.deadline = attemptDeadline(c.timeout, inv.ctx),
                                     !.getBodyCalls = IF withBody THEN 2 ELSE 1]]
                 /\ urls' = U
                 /\ headers' = H
    /\ UNCHANGED <<clients, httpClients, snap>>

\* --------------------------------------------- httpClient.Do (net/http)
RedirectCodes == {301, 302, 303, 307, 308}

Location == [Host |-> "", Path |-> <<"/", "r">>, RawQuery |-> ""]

Follows(i) == httpClients[clients[calls[i].client].httpClient].CheckRedirect = "nil"

\* the server answers with a redirect and the client follows it
Redirect(i, status) ==
    /\ calls[i].pc = "inflight"
    /\ status \in RedirectCodes
    /\ Follows(i)
    /\ calls[i].sent < MaxRedirects
    /\ LET call == calls[i]
           resend == status \in {307, 308}
           method == IF resend \/ call.attempt.Method \in {"GET", "HEAD"}
                     THEN call.attempt.Method ELSE "GET"
       IN calls' = [calls EXCEPT ![i] =
              [call EXCEPT !.attempt = [Method |-> method,
                                        URL |-> ResolveReference(call.attempt.URL, Location),
                                        body |-> IF resend THEN call.req.GetBody ELSE <<>>],
                           !.sent = @ + 1,
                           !.redirects = @ + 1,
                           !.lastStatus = status,
                           !.getBodyCalls = IF resend THEN @ + 1 ELSE @]]
    /\ UNCHANGED <<clients, urls, headers, httpClients, snap>>

\* mutant: Call hands back whatever response Do returned along with its error
doFailure_keepsResponse(resRef, err) == Result(resRef, err)

\* Call when httpClient.Do returns an error: the response, if any, is dropped
doFailure(resRef, err) == Result(0, err)

\* the server redirects once more than the client follows: Do returns the last
\* response, its body closed, together with an error
RedirectLimit(i, status) ==
    /\ calls[i].pc = "inflight"
    /\ status \in RedirectCodes
    /\ Follows(i)
    /\ calls[i].sent = MaxRedirects
    /\ calls' = [calls EXCEPT ![i] =
           [@ EXCEPT !.pc = "returned",
                     !.redirects = @ + 1,
                     !.lastStatus = status,
                     !.res = [StatusCode |-> status, ContentType |-> TypeMissing,
                              Body |-> CloseStream(NoBody)],
                     !.ret = doFailure(i, Err("stopped after 10 redirects"))]]
    /\ UNCHANGED <<clients, urls, headers, httpClients, snap>>

TransportErrors == {"connection refused", "context deadline exceeded", "context canceled"}

\* mutant: a failed request is sent once more before the failure is returned
TransportError_retries(i, kind) ==
    /\ calls[i].pc = "inflight"
    /\ kind \in TransportErrors
    /\ calls' = [calls EXCEPT ![i] =
           IF @.sent < 2 THEN [@ EXCEPT !.sent = @ + 1]
           ELSE [@ EXCEPT !.pc = "returned", !.ret = Result(0, Err(kind))]]
    /\ UNCHANGED <<clients, urls, headers, httpClients, snap>>

\* Do fails: no connection, or the deadline or the caller's cancellation fired
TransportError(i, kind) ==
    /\ calls[i].pc = "inflight"
    /\ kind \in TransportErrors
    /\ calls' = [calls EXCEPT ![i] = [@ EXCEPT !.pc = "returned", !.ret = doFailure(0, Err(kind))]]
    /\ UNCHANGED <<clients, urls, headers, httpClients, snap>>

\* a tick of the clock while Do waits for the response
Tick(i) ==
    /\ calls[i].pc = "inflight"
    /\ calls[i].elapsed < calls[i].deadline
    /\ calls' = [calls EXCEPT ![i] = [@ EXCEPT !.elapsed = @ + 1]]
    /\ UNCHANGED <<clients, urls, headers, httpClients, snap>>

\* the deadline of the request context passes before a response has come
DeadlineExceeded(i) ==
    /\ calls[i].pc = "inflight"
    /\ calls[i].elapsed = calls[i].deadline
    /\ calls' = [calls EXCEPT ![i] =
           [@ EXCEPT !.pc = "returned", !.ret = doFailure(0, Err("context deadline exceeded"))]]
    /\ UNCHANGED <<clients, urls, headers, httpClients, snap>>

\* mutant: on a retrying client the cancellation is one more failure to retry
CallerCancel_retried(i) ==
    /\ calls[i].pc = "inflight"
    /\ calls[i].elapsed < calls[i].deadline
    /\ calls' = [calls EXCEPT ![i] =
           [@ EXCEPT !.pc = IF clients[calls[i].client].retry.enabled THEN "backoff" ELSE "returned",
                     !.ret = Result(0, Err("context canceled"))]]
    /\ UNCHANGED <<clients, urls, headers, httpClients, snap>>

\* the caller cancels its context before a response has come
CallerCancel(i) ==
    /\ calls[i].pc = "inflight"
    /\ calls[i].elapsed < calls[i].deadline
    /\ calls' = [calls EXCEPT ![i] =
           [@ EXCEPT !.pc = "returned", !.ret = doFailure(0, Err("context canceled"))]]
    /\ UNCHANGED <<clients, urls, headers, httpClients, snap>>

\* ----------------------------------------------- Call after Do has returned
\* mutant: Call closes the body whether or not it decodes
closeIfOwned_always(decoder, stream) == CloseStream(stream)

\* mutant: Call never closes the body
closeIfOwned_never(decoder, stream) == stream

\* non-nil decoder means Call is responsible for the body and closes it
closeIfOwned(decoder, stream) == IF decoder # "nil" THEN CloseStream(stream) ELSE stream

\* mutant: the response is returned along with the read failure
errorBodyReadFailure_keepsResponse(resRef, cause) ==
    Result(resRef, Wrap("failed to read error body", cause))

\* what Call returns when reading the body of an error response fails
errorBodyReadFailure(resRef, cause) == Result(0, Wrap("failed to read error body", cause))

\* mutant: the response is returned along with the decode failure
decodeFailure_keepsResponse(resRef, d) == Result(resRef, Wrap(d.err, d.cause))

\* what Call returns when handleDecoding fails on a success response
decodeFailure(resRef, d) == Result(0, Wrap(d.err, d.cause))

\* the deferred cancel() of the per-call context: a connection body that Call
\* leaves open is cut off unless all of it had already arrived
cancel(stream, arrived) ==
    IF stream.kind = "conn" /\ stream.closes = 0 /\ ~arrived
    THEN [stream EXCEPT !.broken = TRUE]
    ELSE stream

\* Do returns the response r; Call coerces, decodes or captures, closes, returns
Respond(i, r, arrived) ==
    /\ calls[i].pc = "inflight"
    /\ ~(r.StatusCode \in RedirectCodes /\ Follows(i) /\ calls[i].sent <= MaxRedirects)
    /\ (calls[i].attempt.Method = "HEAD" \/ r.StatusCode \in {204, 304}) => r.Body.kind = "NoBody"
    /\ LET call == calls[i]
           decoder == clients[call.client].decoder
           httpErr == coerceHTTPError(r, i)
           failed == httpErr.Response # 0
           pop == populateBody(httpErr, decoder, r.Body)
           dec == handleDecoding(r, decoder, call.output)
           status == Result(i, IF failed THEN [kind |-> "HTTPError", cause |-> "none", http |-> i]
                                         ELSE NoErr)
           panics == decoder # "nil" /\ failed /\ pop.panic
           ret == CASE panics -> Result(0, NoErr)
                    [] decoder # "nil" /\ failed /\ pop.err # "nil" ->
                            errorBodyReadFailure(i, pop.err)
                    [] decoder # "nil" /\ ~failed /\ dec.res.err # "nil" ->
                            decodeFailure(i, dec.res)
                    [] OTHER -> status
           stream == CASE decoder # "nil" /\ failed -> pop.stream
                       [] decoder # "nil" /\ ~failed -> dec.stream
                       [] OTHER -> r.Body
       IN calls' = [calls EXCEPT ![i] =
              [call EXCEPT !.pc = IF panics THEN "panic" ELSE "returned",
                           !.delivered = TRUE,
                           !.res = [r EXCEPT !.Body = cancel(closeIfOwned(decoder, stream), arrived)],
                           !.httpErr = IF ret.err.kind = "HTTPError"
                                       THEN (IF decoder # "nil" THEN pop.e ELSE httpErr)
                                       ELSE NoHTTPError,
                           !.out = IF decoder # "nil" /\ ~failed /\ dec.res.err = "nil"
                                   THEN dec.res.value ELSE Undecoded,
                           !.ret = ret]]
    /\ UNCHANGED <<clients, urls, headers, httpClients, snap>>

\* ------------------------------------------------------ the caller, afterwards
\* the caller reads the body of the response Call returned, to its end
CallerReadBody(i) ==
    /\ calls[i].pc = "returned"
    /\ calls[i].ret.res # 0
    /\ ~calls[i].callerRead.done
    /\ LET r == ReadToEnd(calls[i].res.Body)
       IN calls' = [calls EXCEPT ![i] =
              [@ EXCEPT !.res.Body = r.stream,
                        !.callerRead = [done |-> TRUE, bytes |-> r.bytes, err |-> r.err]]]
    /\ UNCHANGED <<clients, urls, headers, httpClients, snap>>

\* the caller calls Decode on the *HTTPError it got, and Body right after
ErrDecode(i, output) ==
    /\ calls[i].pc = "returned"
    /\ calls[i].ret.err.kind = "HTTPError"
    /\ Len(calls[i].decodes) < MaxDecodes
    /\ LET call == calls[i]
           d == Decode(call.httpErr, call.res, output)
       IN calls' = [calls EXCEPT ![i] =
              [call EXCEPT !.httpErr = d.e,
                           !.decodes = Append(@, [output |-> output, res |-> d.res,
                                                   body |-> Body(d.e)])]]
    /\ UNCHANGED <<clients, urls, headers, httpClients, snap>>

\* the caller is done with the call; the objects of its request are garbage
Release(i) ==
    /\ calls[i].pc \in {"returned", "panic"}
    /\ calls' = [calls EXCEPT ![i] = IdleCall]
    /\ urls' = [urls EXCEPT ![ReqRef(i)] = ZeroURL]
    /\ headers' = [headers EXCEPT ![ReqRef(i)] = EmptyHeader]
    /\ UNCHANGED <<clients, httpClients, snap>>

\* ------------------------------------------------------------ retry engine
\* attempts made so far: the requests sent that were not redirect hops
Attempts(i) == calls[i].sent - calls[i].redirects

\* mutant: the ceiling on attempts is never looked at
CanRetry_unbounded(i) == clients[calls[i].client].retry.enabled /\ calls[i].sent < MaxRedirects

\* retrying is enabled and the ceiling on attempts has not been reached
CanRetry(i) ==
    LET retry == clients[calls[i].client].retry
    IN retry.enabled /\ Attempts(i) < retry.maxAttempts

\* mutant: every HTTP status error counts as retryable
RetryableStatus_from300(status) == status >= 300

\* default classification of a response: status >= 500 is retryable
RetryableStatus(status) == status >= 500

\* default classification of a failure of Do: connection-level errors and the
\* attempt's own deadline are retryable, the caller's cancellation is not
RetryableError(kind) == kind \in {"connection refused", "context deadline exceeded"}

\* an attempt ends in a retryable transport failure: the engine keeps it as
\* the last failure, waits, then tries again
RetryError(i, kind) ==
    /\ calls[i].pc = "inflight"
    /\ kind \in TransportErrors
    /\ CanRetry(i) /\ RetryableError(kind)
    /\ calls' = [calls EXCEPT ![i] =
           [@ EXCEPT !.pc = "backoff", !.lastStatus = 0, !.ret = Result(0, Err(kind))]]
    /\ UNCHANGED <<clients, urls, headers, httpClients, snap>>

\* an attempt ends in a retryable status: the response is dropped; wait, try again
RetryStatus(i, status) ==
    /\ calls[i].pc = "inflight"
    /\ ~(status \in RedirectCodes /\ Follows(i))
    /\ CanRetry(i) /\ RetryableStatus(status)
    /\ calls' = [calls EXCEPT ![i] = [@ EXCEPT !.pc = "backoff", !.lastStatus = status]]
    /\ UNCHANGED <<clients, urls, headers, httpClients, snap>>

\* the wait is over: the request is rebuilt from the original and sent again,
\* its body opened afresh, under a deadline of its own
Reattempt(i) ==
    /\ calls[i].pc = "backoff"
    /\ LET call == calls[i]
       IN calls' = [calls EXCEPT ![i] =
              [call EXCEPT !.pc = "inflight",
                           !.ret = Result(0, NoErr),
                           !.attempt = [Method |-> call.req.Method, URL |-> urls[call.req.URL],
                                        body |-> call.req.GetBody],
                           !.sent = @ + 1,
                           !.elapsed = 0,
                           !.getBodyCalls = IF call.input # "nil" THEN @ + 1 ELSE @]]
    /\ UNCHANGED <<clients, urls, headers, httpClients, snap>>

\* the caller cancels its context during the wait between two attempts
CancelBackoff(i) ==
    /\ calls[i].pc = "backoff"
    /\ calls' = [calls EXCEPT ![i] =
           [@ EXCEPT !.pc = "returned", !.ret = doFailure(0, Err("context canceled"))]]
    /\ UNCHANGED <<clients, urls, headers, httpClients, snap>>

\* ------------------------------------------------------------------ inputs
Statuses == {200, 204, 301, 404, 500}
ContentTypes == {TypeJSONCharset, TypeHTML}
BodyData == {<<>>, <<"[", "]">>, <<"[">>, <<"]">>}
ServerBodies ==
    {NoBody, Chunked(<<"[", "]">>, FALSE)}
        \cup {Stream("conn", d, f) : d \in BodyData, f \in BOOLEAN}
ServerResponses ==
    {[StatusCode |-> s, ContentType |-> ct, Body |-> b] :
        s \in Statuses, ct \in ContentTypes, b \in ServerBodies}

Invocations == {GET(FALSE), GET(TRUE), POST("arr", FALSE), POST("arr", TRUE), HEAD}
OptionLists == {<<>>, <<DecodeJSON, EncodeJSON>>, <<DecodeJSON, NoFollow>>}
DeriveLists == {<<DontDecode>>, <<NoFollow>>}

Init ==
    /\ clients = <<>>
    /\ snap = <<>>
    /\ urls = [r \in Refs |-> IF r[1] = "base" THEN Bases[r[2]] ELSE ZeroURL]
    /\ headers = [r \in Refs |-> EmptyHeader]
    /\ httpClients = [r \in Refs |-> NoHTTPClient]
    /\ calls = [i \in 1..MaxCalls |-> IdleCall]

AllIdle == \A j \in 1..MaxCalls : calls[j].pc = "idle"

\* one caller, one call at a time, every kind of response
Next ==
    \/ \E opts \in OptionLists : Len(clients) < MaxClients /\ New(opts)
    \/ \E p \in 1..MaxClients, opts \in DeriveLists : Len(clients) < MaxClients /\ Derive(p, opts)
    \/ \E k \in 1..MaxClients, inv \in Invocations, target \in {TargetRelative, ParseError} :
          AllIdle /\ CallStart(1, k, inv, target, <<>>)
    \/ \E i \in 1..MaxCalls, kind \in TransportErrors : TransportError(i, kind)
    \/ \E i \in 1..MaxCalls, r \in ServerResponses, arrived \in BOOLEAN : Respond(i, r, arrived)
    \/ \E i \in 1..MaxCalls : CallerReadBody(i)
    \/ \E i \in 1..MaxCalls : ErrDecode(i, TRUE)
    \/ \E i \in 1..MaxCalls : Release(i)

Spec == Init /\ [][Next]_vars

\* one root client and the clients derived from it and from one another, every option
RootLists == {<<>>, <<BaseURL(1), DecodeJSON, EncodeJSON>>}
ChildLists ==
    {<<BaseURL(2)>>, <<SetHeader("User-Agent", "custom")>>, <<Bearer("t")>>, <<RequestTimeout(5)>>,
     <<EncodeJSON>>, <<DecodeJSON>>, <<DontDecode>>, <<NoFollow>>, <<GzipRequests>>,
     <<NoFollow, Bearer("u")>>}

NextDerive ==
    \/ \E opts \in RootLists : clients = <<>> /\ New(opts)
    \/ \E p \in 1..ClientSlots, opts \in ChildLists :
          Len(clients) < MaxDerived + 1 /\ Derive(p, opts)

SpecDerive == Init /\ [][NextDerive]_vars

\* several calls at once on few clients, with modifiers and encoded bodies
CallLists == {<<BaseURL(1), EncodeJSON>>, <<EncodeJSON, DecodeJSON>>}
CallShapes ==
    {[inv |-> GET(FALSE), target |-> TargetTemplate, ums |-> <<Param(<<"k">>, <<"x", " ">>)>>],
     [inv |-> POST("arr", FALSE), target |-> TargetRelative, ums |-> <<Query("b=2")>>],
     [inv |-> GET(FALSE), target |-> TargetQuery, ums |-> <<QueryMap("b=2")>>]}
OK200 == [StatusCode |-> 200, ContentType |-> TypeHTML, Body |-> NoBody]

NextCalls ==
    \/ \E opts \in CallLists : Len(clients) < MaxClients /\ New(opts)
    \/ \E p \in 1..MaxClients : Len(clients) < MaxClients /\ Derive(p, <<Bearer("t")>>)
    \/ \E i \in 1..MaxCalls, k \in 1..MaxClients, shape \in CallShapes :
          CallStart(i, k, shape.inv, shape.target, shape.ums)
    \/ \E i \in 1..MaxCalls : Respond(i, OK200, TRUE)
    \/ \E i \in 1..MaxCalls : Release(i)

SpecCalls == Init /\ [][NextCalls]_vars

\* one call at a time against a server that redirects, under either policy
RedirectLists == {<<EncodeJSON>>, <<EncodeJSON, DecodeJSON, NoFollow>>, <<NoFollow>>}
RedirectInvocations == {GET(FALSE), POST("arr", FALSE)}
RedirectResponses ==
    {[StatusCode |-> s, ContentType |-> TypeHTML, Body |-> b] :
        s \in {200, 300, 301, 307},
        b \in {NoBody, Stream("conn", <<"[", "]">>, FALSE), Stream("conn", <<"[">>, TRUE)}}

NextRedirect ==
    \/ \E opts \in RedirectLists : Len(clients) < MaxClients /\ New(opts)
    \/ \E k \in 1..MaxClients, inv \in RedirectInvocations :
          AllIdle /\ CallStart(1, k, inv, TargetRelative, <<>>)
    \/ \E i \in 1..MaxCalls, status \in RedirectCodes : Redirect(i, status)
    \/ \E i \in 1..MaxCalls, status \in RedirectCodes : RedirectLimit(i, status)
    \/ \E i \in 1..MaxCalls : TransportError(i, "connection refused")
    \/ \E i \in 1..MaxCalls, r \in RedirectResponses, arrived \in BOOLEAN : Respond(i, r, arrived)
    \/ \E i \in 1..MaxCalls : Release(i)

SpecRedirect == Init /\ [][NextRedirect]_vars

\* one call at a time with every short list of URL modifiers
URLLists == {<<>>, <<BaseURL(1)>>}
Targets == {TargetTemplate, TargetRelative, TargetQuery, TargetTwice}
Modifiers ==
    {Query("b=2"), QueryMap("c=3"), Query(""), Param(<<"k">>, <<"x", " ">>),
     Param(<<"k">>, <<":", "k">>), IntParam(<<"k">>, <<"7">>), Param(<<"m">>, <<"x">>)}
ModifierLists == {<<>>} \cup {<<a>> : a \in Modifiers} \cup {<<a, b>> : a, b \in Modifiers}

NextURL ==
    \/ \E opts \in URLLists : Len(clients) < MaxClients /\ New(opts)
    \/ \E k \in 1..MaxClients, target \in Targets, ums \in ModifierLists :
          AllIdle /\ CallStart(1, k, GET(FALSE), target, ums)
    \/ \E i \in 1..MaxCalls : Respond(i, OK200, TRUE)
    \/ \E i \in 1..MaxCalls : Release(i)

SpecURL == Init /\ [][NextURL]_vars

\* one call at a time on clients that decode JSON, every content type
DecodeTypes == {TypeMissing, TypeHTML, TypeJSON, TypeJSONCharset, TypeJSONLines}
DecodeResponses ==
    {[StatusCode |-> s, ContentType |-> ct, Body |-> b] :
        s \in {200, 404}, ct \in DecodeTypes,
        b \in {NoBody, Stream("conn", <<"[", "]">>, FALSE), Stream("conn", <<"]">>, FALSE)}}

NextDecode ==
    \/ Len(clients) < MaxClients /\ New(<<DecodeJSON>>)
    \/ \E k \in 1..MaxClients, output \in BOOLEAN :
          AllIdle /\ CallStart(1, k, GET(output), TargetRelative, <<>>)
    \/ \E i \in 1..MaxCalls, r \in DecodeResponses : Respond(i, r, TRUE)
    \/ \E i \in 1..MaxCalls : ErrDecode(i, TRUE)
    \/ \E i \in 1..MaxCalls : Release(i)

SpecDecode == Init /\ [][NextDecode]_vars

\* one call at a time under a clock: timeouts, caller deadlines, cancellation
TimeLists == {<<>>, <<RequestTimeout(3)>>, <<RequestTimeout(0)>>}
Contexts == {Background, WithDeadline(2)}
Error500 == [StatusCode |-> 500, ContentType |-> TypeHTML, Body |-> NoBody]

NextTime ==
    \/ \E opts \in TimeLists : Len(clients) < MaxClients /\ New(opts)
    \/ \E k \in 1..MaxClients, ctx \in Contexts :
          AllIdle /\ CallStart(1, k, WithContext(ctx, GET(FALSE)), TargetRelative, <<>>)
    \/ \E i \in 1..MaxCalls : Tick(i)
    \/ \E i \in 1..MaxCalls : DeadlineExceeded(i)
    \/ \E i \in 1..MaxCalls : CallerCancel(i)
    \/ \E i \in 1..MaxCalls :
          calls[i].elapsed < calls[i].deadline /\ TransportError(i, "connection refused")
    \/ \E i \in 1..MaxCalls, r \in {OK200, Error500} :
          calls[i].elapsed < calls[i].deadline /\ Respond(i, r, TRUE)
    \/ \E i \in 1..MaxCalls : Release(i)

SpecTime == Init /\ [][NextTime]_vars

\* error responses, with and without a declared length, with and without a decoder
ErrorLists == {<<>>, <<DecodeJSON>>, <<DecodeJSON, NoFollow>>}
ErrorResponses ==
    {[StatusCode |-> s, ContentType |-> TypeJSON, Body |-> b] :
        s \in {200, 301, 404, 500},
        b \in {NoBody, Stream("conn", <<"[", "]">>, FALSE), Stream("conn", <<"[">>, TRUE),
               Chunked(<<"[", "]">>, FALSE)}}

NextError ==
    \/ \E opts \in ErrorLists : Len(clients) < MaxClients /\ New(opts)
    \/ \E p \in 1..MaxClients : Len(clients) < MaxClients /\ Derive(p, <<DontDecode>>)
    \/ \E k \in 1..MaxClients, output \in BOOLEAN :
          AllIdle /\ CallStart(1, k, GET(output), TargetRelative, <<>>)
    \/ \E i \in 1..MaxCalls, r \in ErrorResponses, arrived \in BOOLEAN : Respond(i, r, arrived)
    \/ \E i \in 1..MaxCalls : CallerReadBody(i)
    \/ \E i \in 1..MaxCalls : ErrDecode(i, TRUE)
    \/ \E i \in 1..MaxCalls : Release(i)

SpecError == Init /\ [][NextError]_vars

\* POST with and without an input, on every arrangement of encoder and gzip
EncodeLists == {<<>>, <<EncodeJSON>>, <<EncodeJSON, GzipRequests>>, <<GzipRequests>>,
                <<GzipRequests, EncodeJSON>>, <<SetHeader("Content-Type", "text/plain"), EncodeJSON>>}
EncodeInputs == {"nil", "arr", "below", "at", "big", "inf"}

NextEncode ==
    \/ \E opts \in EncodeLists : Len(clients) < MaxClients /\ New(opts)
    \/ \E k \in 1..MaxClients, input \in EncodeInputs :
          AllIdle /\ CallStart(1, k, POST(input, FALSE), TargetRelative, <<>>)
    \/ \E i \in 1..MaxCalls : Respond(i, OK200, TRUE)
    \/ \E i \in 1..MaxCalls : Release(i)

SpecEncode == Init /\ [][NextEncode]_vars

\* retrying clients, derived from one another, against failing endpoints
RetryRootLists == {<<>>, <<RetryOnError>>, <<RetryOnError, RetryMaxAttempts(2), NoFollow>>,
                   <<DecodeJSON, RetryOnError, RetryDelay(0)>>,
                   <<RetryMaxAttempts(1)>>, <<RetryBackoff>>, <<NoFollow, RetryDelay(0), RetryOnError>>}
RetryChildLists == {<<RetryMaxAttempts(2)>>, <<RetryMaxAttempts(4)>>, <<RetryMaxDuration(0)>>,
                    <<RetryDelay(0)>>}
RetryResponses ==
    {[StatusCode |-> s, ContentType |-> TypeJSON, Body |-> b] :
        s \in {200, 301, 404, 500}, b \in {NoBody, Stream("conn", <<"[">>, FALSE)}}

NextRetry ==
    \/ \E opts \in RetryRootLists : clients = <<>> /\ New(opts)
    \/ \E opts \in RetryChildLists : Len(clients) < MaxDerived + 1 /\ Derive(1, opts)
    \/ \E k \in 1..ClientSlots, inv \in {GET(FALSE), GET(TRUE), POST("arr", FALSE)} :
          AllIdle /\ Len(clients) = MaxDerived + 1
              /\ CallStart(1, k, inv, TargetRelative, <<>>)
    \/ \E i \in 1..MaxCalls, kind \in {"connection refused", "context deadline exceeded"} :
          RetryError(i, kind)
    \/ \E i \in 1..MaxCalls, r \in RetryResponses : RetryStatus(i, r.StatusCode)
    \/ \E i \in 1..MaxCalls : Reattempt(i)
    \/ \E i \in 1..MaxCalls : CancelBackoff(i)
    \/ \E i \in 1..MaxCalls : CallerCancel(i)
    \/ \E i \in 1..MaxCalls, kind \in {"connection refused", "context deadline exceeded"} :
          calls[i].pc = "inflight" /\ ~CanRetry(i) /\ TransportError(i, kind)
    \/ \E i \in 1..MaxCalls, r \in RetryResponses :
          /\ calls[i].pc = "inflight"
          /\ ~(r.StatusCode \in RedirectCodes /\ Follows(i))
          /\ ~(CanRetry(i) /\ RetryableStatus(r.StatusCode))
          /\ Respond(i, r, TRUE)
    \/ \E i \in 1..MaxCalls : Release(i)

SpecRetry == Init /\ [][NextRetry]_vars

\* clients built and derived with DecodeJSON and DontDecode in every order, and calls on them
AcceptLists ==
    {<<>>, <<DecodeJSON>>, <<DontDecode>>, <<DecodeJSON, DontDecode>>, <<DontDecode, DecodeJSON>>,
     <<DecodeJSON, EncodeJSON, DontDecode, DecodeJSON>>, <<DecodeJSON, DecodeJSON, DontDecode>>}

NextAccept ==
    \/ \E opts \in AcceptLists : Len(clients) < MaxClients /\ New(opts)
    \/ \E p \in 1..MaxClients, opts \in AcceptLists : Len(clients) < MaxClients /\ Derive(p, opts)
    \/ \E k \in 1..MaxClients, output \in BOOLEAN :
          AllIdle /\ CallStart(1, k, GET(output), TargetRelative, <<>>)
    \/ \E i \in 1..MaxCalls, r \in {OK200, Error500} : Respond(i, r, TRUE)
    \/ \E i \in 1..MaxCalls : Release(i)

SpecAccept == Init /\ [][NextAccept]_vars


\* ------------------------------------------------------------------ claims
Slots == 1..MaxCalls
Returned(i) == calls[i].pc = "returned"
\* Do handed a response to Call
Delivered(i) == Returned(i) /\ calls[i].delivered
\* Do handed a response to Call, which then returned or panicked
Handed(i) == calls[i].pc \in {"returned", "panic"} /\ calls[i].delivered
\* the response does not declare the length of its body
UndeclaredLength(i) == ~calls[i].res.Body.known
DecoderOf(i) == clients[calls[i].client].decoder
Succeeded(i) == calls[i].res.StatusCode >= 200 /\ calls[i].res.StatusCode < 300
Failed(i) == calls[i].res.StatusCode >= 300 /\ calls[i].res.StatusCode < 600

\* the body the server sent cannot be read to its end
BodyReadFails(i) == calls[i].res.Body.kind = "conn" /\ calls[i].res.Body.fail

\* the body the server sent starts with a JSON value and is declared JSON
DecodableJSON(i) ==
    /\ IsJSONContentType(calls[i].res.ContentType)
    /\ ScanJSON(calls[i].res.Body.data, 1, 0, FALSE).st = "ok"

\* with a decoder configured, what Call does with the body cannot succeed
BodyHandlingFails(i) ==
    IF Failed(i) THEN BodyReadFails(i)
    ELSE \/ calls[i].res.Body.kind = "NoBody" /\ calls[i].output
         \/ calls[i].res.Body.kind = "conn" /\ ~calls[i].output /\ BodyReadFails(i)
         \/ calls[i].res.Body.kind = "conn" /\ calls[i].output /\ ~DecodableJSON(i)

IsHTTPStatusError(i) ==
    /\ calls[i].ret.res = i
    /\ calls[i].ret.err.kind = "HTTPError"
    /\ calls[i].httpErr.Response # 0
    /\ ErrorString(calls[calls[i].httpErr.Response].res) = <<"HTTP Status", calls[i].res.StatusCode>>

\* C1, as claimed: every response with a status in [300, 600) that ends the
\* exchange makes Call return that response and an error "HTTP Status <status>",
\* with or without a decoder.
C1_Original ==
    \A i \in Slots : (Handed(i) /\ Failed(i)) => (Returned(i) /\ IsHTTPStatusError(i))

\* C1, amended: every response with a status in [300, 600) that Do delivers makes
\* Call return that response and an error "HTTP Status <status>", except that with
\* a decoder configured a failure to read the error body makes Call return a nil
\* response and a "failed to read error body" error, and an error body of
\* undeclared length makes Call panic before it reads anything.
C1_StatusErrors ==
    \A i \in Slots : (Handed(i) /\ Failed(i)) =>
        CASE DecoderOf(i) # "nil" /\ UndeclaredLength(i) -> calls[i].pc = "panic"
          [] DecoderOf(i) # "nil" /\ ~UndeclaredLength(i) /\ BodyReadFails(i) ->
                /\ Returned(i)
                /\ calls[i].ret.res = 0
                /\ calls[i].ret.err.kind = "failed to read error body"
          [] OTHER -> Returned(i) /\ IsHTTPStatusError(i)

C1_Witness ==
    \E i \in Slots : Delivered(i) /\ calls[i].res.StatusCode = 301 /\ DecoderOf(i) # "nil"
                     /\ IsHTTPStatusError(i)

\* C2: whenever Call returns a response together with an error, the error is an
\* HTTPError matching ErrHTTP, AsHTTPError yields it, and its Response is the
\* response Call returned; AsHTTPError yields nil for any other error.
C2_HTTPErrorIdentity ==
    \A i \in Slots : Returned(i) =>
        /\ (calls[i].ret.res # 0 /\ calls[i].ret.err # NoErr) =>
              /\ IsErrHTTP(calls[i].ret.err)
              /\ AsHTTPError(calls[i].ret.err) # 0
              /\ calls[AsHTTPError(calls[i].ret.err)].httpErr.Response = calls[i].ret.res
        /\ (calls[i].ret.err.kind # "HTTPError") => AsHTTPError(calls[i].ret.err) = 0

C2_Witness ==
    \E i \in Slots : Returned(i) /\ calls[i].ret.res = i /\ calls[i].ret.err.kind = "HTTPError"
                     /\ calls[i].res.StatusCode = 404

\* C3, as claimed: once Do has delivered a response, Call returns a non-nil response.
C3_Original == \A i \in Slots : Delivered(i) => calls[i].ret.res # 0

\* C3, amended: Call returns a nil response exactly when Do delivered no response,
\* or when a decoder is configured and reading the error body, draining the body
\* or decoding it into the output fails.
C3_NilResponse ==
    \A i \in Slots : Returned(i) =>
        (calls[i].ret.res = 0 <=>
            (~calls[i].delivered \/ (DecoderOf(i) # "nil" /\ BodyHandlingFails(i))))

C3_Witness ==
    \E i \in Slots : Delivered(i) /\ Succeeded(i) /\ calls[i].output
                     /\ calls[i].res.Body.kind = "conn" /\ calls[i].ret.res = 0

\* C4, as claimed: every response with a status in [200, 300) makes Call return
\* the response and a nil error.
C4_Original ==
    \A i \in Slots : (Delivered(i) /\ Succeeded(i)) => calls[i].ret = Result(i, NoErr)

\* C4, amended: a response with a status in [200, 300) makes Call return the
\* response and a nil error, unless a decoder is configured and handling the body
\* fails (empty body with a non-nil output, a failed drain, a failed decode), in
\* which case Call returns a nil response and an error; an empty body with a
\* decoder and a nil output is a success that decodes nothing.
C4_Success ==
    \A i \in Slots : (Delivered(i) /\ Succeeded(i)) =>
        IF DecoderOf(i) # "nil" /\ BodyHandlingFails(i)
        THEN calls[i].ret.res = 0 /\ calls[i].ret.err \notin {NoErr}
             /\ calls[i].ret.err.kind # "HTTPError"
        ELSE /\ calls[i].ret = Result(i, NoErr)
             /\ (calls[i].res.Body.kind = "NoBody" \/ ~calls[i].output) => calls[i].out = Undecoded

C4_Witness ==
    \E i \in Slots : Delivered(i) /\ calls[i].res.StatusCode = 204 /\ DecoderOf(i) # "nil"
                     /\ ~calls[i].output /\ calls[i].ret = Result(i, NoErr)

DiscardedSuccess(i) ==
    Delivered(i) /\ Succeeded(i) /\ DecoderOf(i) # "nil" /\ ~calls[i].output
        /\ calls[i].ret.res = i

\* C6, as claimed: with a decoder and a nil output a successful body, empty or
\* not, is drained and closed, and a later read yields no bytes and a "closed" error.
C6_Original ==
    \A i \in Slots : DiscardedSuccess(i) =>
        /\ calls[i].res.Body.pos = Len(calls[i].res.Body.data)
        /\ calls[i].res.Body.closes = 1
        /\ ReadOnce(calls[i].res.Body) = [n |-> 0, err |-> "read on closed response body"]

\* C6, amended: with a decoder and a nil output a successful body is drained and
\* closed before Call returns, and a later read yields no bytes and an error:
\* "read on closed response body" for a non-empty body, EOF for http.NoBody.
C6_DrainedAndClosed ==
    \A i \in Slots : DiscardedSuccess(i) =>
        /\ calls[i].res.Body.pos = Len(calls[i].res.Body.data)
        /\ calls[i].res.Body.closes = 1
        /\ ReadOnce(calls[i].res.Body) =
              [n |-> 0, err |-> IF calls[i].res.Body.kind = "NoBody" THEN "EOF"
                                ELSE "read on closed response body"]

C6_Witness ==
    \E i \in Slots : DiscardedSuccess(i) /\ calls[i].res.Body.kind = "conn"
                     /\ calls[i].res.Body.data # <<>>

\* C7: without a decoder the body of the response Call returns is unread and
\* unclosed, and the caller can read all of it after Call has returned.
C7_CallerOwnsBody ==
    \A i \in Slots : (Delivered(i) /\ DecoderOf(i) = "nil" /\ ~calls[i].callerRead.done) =>
        /\ calls[i].ret.res = i
        /\ calls[i].res.Body.closes = 0
        /\ calls[i].res.Body.pos = 0
        /\ ReadToEnd(calls[i].res.Body).bytes = calls[i].res.Body.data
        /\ ReadToEnd(calls[i].res.Body).err = IF BodyReadFails(i) THEN "unexpected EOF" ELSE "nil"

\* a returned response without a decoder whose body the release of the request
\* context cut off before the caller read it
C7_Witness ==
    \E i \in Slots : Delivered(i) /\ DecoderOf(i) = "nil" /\ calls[i].ret.res = i
                     /\ ~calls[i].callerRead.done /\ calls[i].res.Body.broken
                     /\ calls[i].res.Body.closes = 0

\* C8: the error body is captured once; every Decode of the HTTPError decodes the
\* captured bytes with the same result, Body returns the captured bytes before and
\* after any Decode, and the closed response stream is not read again.
C8_DecodeRepeatable ==
    \A i \in Slots : (Returned(i) /\ calls[i].ret.err.kind = "HTTPError" /\ DecoderOf(i) # "nil") =>
        /\ calls[i].httpErr.hasBody
        /\ Body(calls[i].httpErr) = calls[i].res.Body.data
        /\ calls[i].res.Body.closes = 1
        /\ \A j \in DOMAIN calls[i].decodes :
              /\ calls[i].decodes[j].body = calls[i].res.Body.data
              /\ \A h \in DOMAIN calls[i].decodes :
                    calls[i].decodes[h].output = calls[i].decodes[j].output
                        => calls[i].decodes[h].res = calls[i].decodes[j].res
              /\ calls[i].decodes[j].res.err \in {"nil", "failed to decode", "expected JSON content-type"}
              /\ calls[i].decodes[j].res.cause # "read on closed response body"
              /\ (calls[i].decodes[j].res.err = "nil") <=>
                    (~calls[i].decodes[j].output \/ DecodableJSON(i))

C8_Witness ==
    \E i \in Slots : Returned(i) /\ calls[i].ret.err.kind = "HTTPError" /\ DecoderOf(i) # "nil"
                     /\ Len(calls[i].decodes) = 2 /\ calls[i].decodes[2].res.err = "nil"

\* the request buildRequest and setupEncoding make for a client configuration
ExpectedRequest(view, inv, args) ==
    LET enc == RunEncoder(view.encoder, inv.input)
    IN [Method |-> inv.method,
        URL |-> ApplyModifiers(args.ums, ResolveReference(view.URL, args.target.url)).url,
        Header |-> IF inv.input # "nil" THEN copyHeaders(view.Header, enc.Header) ELSE view.Header,
        ContentLength |-> IF inv.input # "nil" THEN enc.ContentLength ELSE 0,
        body |-> IF inv.input # "nil" THEN enc.body ELSE <<>>]

Probe == [target |-> TargetRelative, ums |-> <<>>]

\* C9: Derive leaves every existing client as it was: base URL, header set,
\* timeout, encoder, decoder and redirect policy, and with them the requests made
\* through it, whatever options the new client is given.
C9_DeriveIndependent ==
    [][(Len(clients') = Len(clients) + 1 /\ clients'[Len(clients')].parent # 0) =>
          \A k \in 1..Len(clients) :
             /\ clients'[k] = clients[k]
             /\ ViewIn(clients'[k], urls', headers', httpClients') = View(k)
             /\ ExpectedRequest(ViewIn(clients'[k], urls', headers', httpClients'),
                                POST("arr", FALSE), Probe)
                   = ExpectedRequest(snap[k], POST("arr", FALSE), Probe)]_vars

\* a grandchild that differs from its parent, which differs from the root
C9_Witness ==
    \E k \in 1..Len(clients) :
        /\ clients[k].parent # 0
        /\ clients[clients[k].parent].parent # 0
        /\ View(k).CheckRedirect = "DontFollowRedirect"
        /\ View(clients[k].parent).CheckRedirect = "nil"
        /\ View(clients[k].parent) # View(clients[clients[k].parent].parent)

RequestOf(i) ==
    [Method |-> calls[i].req.Method, URL |-> urls[calls[i].req.URL],
     Header |-> headers[calls[i].req.Header], ContentLength |-> calls[i].req.ContentLength,
     body |-> calls[i].req.body]

\* C10: calls never change a client: every client's configuration equals the one
\* it was constructed with, and every request in flight is the one built from
\* that configuration and the call's own arguments, whatever other calls run.
C10_CallsDontMutate ==
    /\ \A k \in 1..Len(clients) : View(k) = snap[k]
    /\ \A i \in Slots : calls[i].sent >= 1 =>
          RequestOf(i) = ExpectedRequest(snap[calls[i].client],
                                         Invocation(calls[i].method, calls[i].input, calls[i].output),
                                         calls[i].args)

\* two calls in flight on one client, one adding headers, one modifying its URL
C10_Witness ==
    \E i, j \in Slots :
        /\ i # j
        /\ calls[i].pc = "inflight" /\ calls[j].pc = "inflight"
        /\ calls[i].client = calls[j].client
        /\ calls[i].input # "nil"
        /\ calls[j].args.ums # <<>> /\ calls[j].input = "nil"
        /\ headers[calls[i].req.Header] # headers[calls[j].req.Header]

\* C11: under the follow policy a call never issues more than 10 requests, and
\* when every request was answered with a redirect the call has issued exactly
\* 10 and returns a nil response with the "stopped after 10 redirects" error.
C11_RedirectLimit ==
    \A i \in Slots :
        /\ calls[i].sent <= 10
        /\ calls[i].pc = "inflight" => calls[i].redirects = calls[i].sent - 1
        /\ (Returned(i) /\ calls[i].redirects = calls[i].sent /\ calls[i].sent > 0) =>
              /\ Follows(i)
              /\ calls[i].sent = 10
              /\ calls[i].ret = Result(0, Err("stopped after 10 redirects"))
        /\ (Returned(i) /\ calls[i].ret.err.kind = "stopped after 10 redirects") =>
              calls[i].redirects = 10

C11_Witness ==
    \E i \in Slots : Returned(i) /\ calls[i].sent = 10 /\ calls[i].redirects = 10
                     /\ calls[i].lastStatus = 308 /\ calls[i].method = "POST"
                     /\ calls[i].ret.res = 0

\* a 3xx response Do handed to a call under the NoFollow policy
NotFollowed(i) ==
    Delivered(i) /\ ~Follows(i) /\ calls[i].res.StatusCode >= 300 /\ calls[i].res.StatusCode < 400

\* C12: under NoFollow a 3xx response is not followed: one request is sent and
\* Call returns that response with an "HTTP Status 3xx" error, its body still
\* there for the caller: captured in the error when a decoder is configured,
\* readable from the response otherwise.
C12_NoFollow ==
    \A i \in Slots : (NotFollowed(i) /\ ~calls[i].callerRead.done) =>
        /\ calls[i].sent = 1
        /\ IsHTTPStatusError(i)
        /\ IF DecoderOf(i) # "nil"
           THEN calls[i].httpErr.hasBody /\ Body(calls[i].httpErr) = calls[i].res.Body.data
           ELSE ReadToEnd(calls[i].res.Body).bytes = calls[i].res.Body.data

\* a 307 under NoFollow without a decoder, returned with a body that the release
\* of the request context cut off
C12_Witness ==
    \E i \in Slots : NotFollowed(i) /\ calls[i].res.StatusCode = 307 /\ DecoderOf(i) = "nil"
                     /\ calls[i].sent = 1 /\ calls[i].ret.res = i /\ calls[i].res.Body.broken

\* C13: following a 307 or 308 answer to a POST with an encoded body issues one
\* more request, a POST whose body is the encoded body of the call.
C13_RepeatsBody ==
    [][\A i \in Slots :
          (/\ calls[i].pc = "inflight" /\ calls'[i].pc = "inflight"
           /\ calls'[i].redirects = calls[i].redirects + 1
           /\ calls'[i].lastStatus \in {307, 308}
           /\ calls[i].attempt.Method = "POST" /\ calls[i].input # "nil") =>
              /\ calls'[i].sent = calls[i].sent + 1
              /\ calls'[i].attempt.Method = "POST"
              /\ calls'[i].attempt.body = RunEncoder(snap[calls[i].client].encoder, calls[i].input).body
              /\ calls'[i].attempt.body # <<>>]_vars

C13_Witness ==
    \E i \in Slots : calls[i].pc = "inflight" /\ calls[i].sent = 2 /\ calls[i].lastStatus = 307
                     /\ calls[i].attempt.Method = "POST"
                     /\ calls[i].attempt.body = <<"[", "]", "\n">>

\* a call that got as far as applying its URL modifiers
Started(i) == calls[i].pc # "idle" /\ calls[i].args.target.valid
                 /\ ~(calls[i].output /\ DecoderOf(i) = "nil")

\* the URL the modifiers of call i start from
ResolvedURL(i) == ResolveReference(snap[calls[i].client].URL, calls[i].args.target.url)

IsQueryModifier(um) == um.op \in {"Query", "QueryMap"}

\* strings.Replace(s, old, new, n) for n >= 0
RECURSIVE ReplaceN(_, _, _, _)
ReplaceN(s, old, new, n) ==
    IF n = 0 \/ s = <<>> THEN s
    ELSE IF HasPrefix(s, old) THEN new \o ReplaceN(SubSeq(s, Len(old) + 1, Len(s)), old, new, n - 1)
    ELSE <<Head(s)>> \o ReplaceN(Tail(s), old, new, n)

Contains(s, old) == \E j \in 1..Len(s) : HasPrefix(SubSeq(s, j, Len(s)), old)

\* the query string once the first n modifiers have run without error
QueryAfter(i, n) ==
    LET ums == calls[i].args.ums
        qs == {h \in 1..n : IsQueryModifier(ums[h])}
    IN IF qs = {} THEN ResolvedURL(i).RawQuery
       ELSE ums[CHOOSE h \in qs : \A g \in qs : g <= h].q

\* the path once the first n modifiers have run without error
RECURSIVE PathAfter(_, _)
PathAfter(i, n) ==
    IF n = 0 THEN ResolvedURL(i).Path
    ELSE LET um == calls[i].args.ums[n]
             before == PathAfter(i, n - 1)
         IN IF IsQueryModifier(um) THEN before
            ELSE ReplaceN(before, <<":">> \o um.k, PathEscape(um.v), Len(before))

\* modifier n fails on the URL the modifiers before it leave
FailsAt(i, n) ==
    IF IsQueryModifier(calls[i].args.ums[n]) THEN QueryAfter(i, n - 1) # ""
    ELSE PathAfter(i, n) = PathAfter(i, n - 1)

FirstFailure(i) ==
    LET bad == {n \in 1..Len(calls[i].args.ums) : FailsAt(i, n)}
    IN IF bad = {} THEN 0 ELSE CHOOSE n \in bad : \A m \in bad : n <= m

\* C14: the modifiers run in the order given on the URL of the call; Query and
\* QueryMap fail with a "querystring" error when the URL then carries a query
\* string, from the target or from an earlier modifier, and set it otherwise; the
\* first failing modifier makes Call return a nil response with its error and no
\* request is sent.
C14_ModifiersInOrder ==
    \A i \in Slots : Started(i) =>
        LET ums == calls[i].args.ums
            f == FirstFailure(i)
        IN IF f # 0
           THEN /\ Returned(i) /\ calls[i].ret.res = 0 /\ calls[i].sent = 0 /\ ~calls[i].delivered
                /\ calls[i].ret.err.kind = IF IsQueryModifier(ums[f])
                                           THEN "refusing to overwrite querystring"
                                           ELSE "failed to find parameter"
           ELSE /\ calls[i].sent >= 1
                /\ calls[i].attempt.URL.RawQuery = QueryAfter(i, Len(ums))
                /\ calls[i].attempt.URL.Path = PathAfter(i, Len(ums))

\* a Query after a Param, refused because the target brought a query string
C14_Witness ==
    \E i \in Slots : Returned(i) /\ calls[i].args.target = TargetQuery
                     /\ Len(calls[i].args.ums) = 2 /\ calls[i].args.ums[1].op = "Query"
                     /\ calls[i].args.ums[1].q = ""
                     /\ calls[i].args.ums[2].op = "QueryMap"
                     /\ calls[i].ret.err.kind = "refusing to overwrite querystring"
                     /\ calls[i].sent = 0

\* a call whose only modifier is a Param or an IntParam
OneParam(i) == Started(i) /\ Len(calls[i].args.ums) = 1 /\ ~IsQueryModifier(calls[i].args.ums[1])

ParamFailed(i) ==
    Returned(i) /\ calls[i].sent = 0 /\ calls[i].ret = Result(0, Err("failed to find parameter"))

\* C15, as claimed: Param and IntParam replace the first occurrence of ":name"
\* in the path by the escaped value and fail exactly when ":name" is not in it.
C15_Original ==
    \A i \in Slots : OneParam(i) =>
        LET um == calls[i].args.ums[1]
            token == <<":">> \o um.k
            path == ResolvedURL(i).Path
        IN IF ~Contains(path, token) THEN ParamFailed(i)
           ELSE calls[i].sent >= 1
                /\ calls[i].attempt.URL.Path = ReplaceN(path, token, PathEscape(um.v), 1)

\* C15, amended: Param and IntParam replace every occurrence of ":name" in the
\* path by the escaped value and fail exactly when that leaves the path as it
\* was: ":name" is not in it, or the escaped value is ":name" itself.
C15_ParamReplacesEvery ==
    \A i \in Slots : OneParam(i) =>
        LET um == calls[i].args.ums[1]
            token == <<":">> \o um.k
            path == ResolvedURL(i).Path
            after == ReplaceN(path, token, PathEscape(um.v), Len(path))
        IN /\ (after = path) <=> (~Contains(path, token) \/ PathEscape(um.v) = token)
           /\ IF after = path THEN ParamFailed(i)
              ELSE calls[i].sent >= 1 /\ calls[i].attempt.URL.Path = after

\* both occurrences of :k replaced by the escaped value
C15_Witness ==
    \E i \in Slots : OneParam(i) /\ calls[i].args.target = TargetTwice /\ calls[i].sent >= 1
                     /\ calls[i].attempt.URL.Path = <<"/", "x", "%", "2", "0", "/", "x", "%", "2", "0">>

EncoderOf(i) == clients[calls[i].client].encoder

NoDecoderError == Err("output requested but no decoder configured")
NoEncoderError == Err("input requested but no encoder configured")

\* C16, as claimed: a non-nil output without a decoder gives a nil response and
\* the "no decoder configured" error, a non-nil input without an encoder gives a
\* nil response and the "no encoder configured" error, both without a request;
\* a call with neither is never refused for a missing codec.
C16_Original ==
    \A i \in Slots : calls[i].pc # "idle" =>
        /\ (calls[i].output /\ DecoderOf(i) = "nil") =>
              Returned(i) /\ calls[i].sent = 0 /\ calls[i].ret = Result(0, NoDecoderError)
        /\ (calls[i].input # "nil" /\ EncoderOf(i) = NilEncoder) =>
              Returned(i) /\ calls[i].sent = 0 /\ calls[i].ret = Result(0, NoEncoderError)
        /\ (calls[i].input = "nil" /\ ~calls[i].output) =>
              calls[i].ret.err \notin {NoDecoderError, NoEncoderError}

\* C16, amended: a non-nil output without a decoder gives a nil response and the
\* "no decoder configured" error; a non-nil input without an encoder gives a nil
\* response and no request, with the "no encoder configured" error unless an
\* earlier step failed first: the missing decoder, the parse of the target, a URL
\* modifier; a call with neither input nor output is never refused for a codec.
C16_FailFast ==
    \A i \in Slots : calls[i].pc # "idle" =>
        /\ (calls[i].output /\ DecoderOf(i) = "nil") =>
              Returned(i) /\ calls[i].sent = 0 /\ calls[i].ret = Result(0, NoDecoderError)
        /\ (calls[i].input # "nil" /\ EncoderOf(i) = NilEncoder) =>
              /\ Returned(i) /\ calls[i].sent = 0 /\ calls[i].ret.res = 0
              /\ calls[i].ret.err =
                    IF calls[i].output /\ DecoderOf(i) = "nil" THEN NoDecoderError
                    ELSE IF ~calls[i].args.target.valid THEN Err("parse")
                    ELSE IF FirstFailure(i) # 0
                         THEN Err(IF IsQueryModifier(calls[i].args.ums[FirstFailure(i)])
                                  THEN "refusing to overwrite querystring"
                                  ELSE "failed to find parameter")
                    ELSE NoEncoderError
        /\ (calls[i].input = "nil" /\ ~calls[i].output) =>
              /\ calls[i].ret.err \notin {NoDecoderError, NoEncoderError}
              /\ (calls[i].args.target.valid /\ FirstFailure(i) = 0) => calls[i].sent >= 1

\* an input without an encoder on a client that has a decoder
C16_Witness ==
    \E i \in Slots : Returned(i) /\ calls[i].input # "nil" /\ EncoderOf(i) = NilEncoder
                     /\ DecoderOf(i) # "nil" /\ calls[i].output
                     /\ calls[i].ret = Result(0, NoEncoderError) /\ calls[i].sent = 0

\* a success handed to a client with a decoder, its body without a byte and
\* ending as it should
EmptySuccess(i) ==
    Delivered(i) /\ Succeeded(i) /\ DecoderOf(i) # "nil"
        /\ calls[i].res.Body.data = <<>> /\ ~calls[i].res.Body.fail

\* C17, as claimed: a success with an empty body and a decoder gives a nil
\* response and "unexpected empty response", the decoder not run, when an output
\* is asked for, and the response with a nil error when none is.
C17_Original ==
    \A i \in Slots : EmptySuccess(i) =>
        IF calls[i].output
        THEN calls[i].ret = Result(0, Err("unexpected empty response"))
        ELSE calls[i].ret = Result(i, NoErr)

\* C17, amended: a success whose body is http.NoBody gives, with a decoder, a nil
\* response and "unexpected empty response" when an output is asked for, the
\* decoder not run; an empty body that is not http.NoBody goes to the decoder,
\* whose error comes back with a nil response; without an output either gives
\* the response and a nil error, nothing decoded.
C17_EmptyBody ==
    \A i \in Slots : EmptySuccess(i) =>
        IF ~calls[i].output
        THEN calls[i].ret = Result(i, NoErr) /\ calls[i].out = Undecoded
        ELSE IF calls[i].res.Body.kind = "NoBody"
        THEN calls[i].ret = Result(0, Err("unexpected empty response"))
        ELSE calls[i].ret =
                Result(0, IF IsJSONContentType(calls[i].res.ContentType)
                          THEN Wrap("failed to decode", "EOF")
                          ELSE Err("expected JSON content-type"))

C17_Witness ==
    \E i \in Slots : EmptySuccess(i) /\ calls[i].output /\ calls[i].res.Body.kind = "NoBody"
                     /\ calls[i].res.StatusCode = 200
                     /\ calls[i].ret = Result(0, Err("unexpected empty response"))

\* the JSON decoder was handed the body of a success to decode into an output
DecodeAttempted(i) ==
    Delivered(i) /\ Succeeded(i) /\ DecoderOf(i) = "json" /\ calls[i].output
        /\ calls[i].res.Body.kind # "NoBody"

\* the media type is JSON
IsJSONMediaType(ct) == ct \in {TypeJSON, TypeJSONCharset}

\* the text of the content type begins with "application/json"
BeginsAsJSON(ct) == ct # <<>> /\ ct[1] = "application/json"

\* the decoder refused the body of call i unread, and Call the response
Refused(i) ==
    /\ calls[i].ret = Result(0, Err("expected JSON content-type"))
    /\ calls[i].out = Undecoded
    /\ calls[i].res.Body.pos = 0 /\ ~calls[i].res.Body.touched

\* C18, as claimed: decoding into an output a response whose content type is not
\* JSON, a missing one included, is a decode error; the output is not written
\* and the call does not succeed. The same holds for Decode on an HTTP-status
\* error.
C18_Original ==
    \A i \in Slots :
        /\ (DecodeAttempted(i) /\ ~IsJSONMediaType(calls[i].res.ContentType)) =>
              /\ calls[i].ret.res = 0
              /\ calls[i].ret.err.kind \in {"expected JSON content-type", "failed to decode"}
              /\ calls[i].out = Undecoded
        /\ (Returned(i) /\ ~IsJSONMediaType(calls[i].res.ContentType)) =>
              \A j \in DOMAIN calls[i].decodes :
                 calls[i].decodes[j].output =>
                    /\ calls[i].decodes[j].res.err # "nil"
                    /\ calls[i].decodes[j].res.value = Undecoded

\* C18, amended: decoding into an output a response whose content type does not
\* begin with "application/json", a missing one included, is a decode error
\* found before the body is read; the output is not written and the call does
\* not succeed. A content type that begins with "application/json" is decoded
\* as JSON, whatever follows the prefix. The same holds for Decode on an
\* HTTP-status error.
C18_ContentTypeChecked ==
    \A i \in Slots :
        /\ DecodeAttempted(i) =>
              IF ~BeginsAsJSON(calls[i].res.ContentType) THEN Refused(i)
              ELSE /\ calls[i].ret.err.kind # "expected JSON content-type"
                   /\ calls[i].res.Body.touched
                   /\ ScanJSON(calls[i].res.Body.data, 1, 0, FALSE).st = "ok" =>
                         calls[i].ret = Result(i, NoErr) /\ calls[i].out # Undecoded
        /\ Returned(i) =>
              \A j \in DOMAIN calls[i].decodes :
                 calls[i].decodes[j].output =>
                    ((calls[i].decodes[j].res = DecodeResult("expected JSON content-type", "none", Undecoded))
                        <=> ~BeginsAsJSON(calls[i].res.ContentType))

\* a body of JSON sent without a content type, refused
C18_Witness ==
    \E i \in Slots : DecodeAttempted(i) /\ calls[i].res.ContentType = TypeMissing
                     /\ calls[i].res.Body.data = <<"[", "]">> /\ Refused(i)

\* the ticks a call may wait: the client's timeout, or the caller's deadline
\* when that is sooner
TimeLimit(i) ==
    LET timeout == snap[calls[i].client].timeout
        own == IF timeout > 0 THEN timeout ELSE 0
    IN IF calls[i].ctx.hasDeadline /\ calls[i].ctx.deadline < own
       THEN calls[i].ctx.deadline ELSE own

\* C19: a request waits no longer than the client's timeout (1 unless
\* RequestTimeout set it) from the start of its call, and no longer than the
\* caller's context allows; a response comes only before that; a call that
\* reaches the limit returns a nil response and "context deadline exceeded", a
\* call whose caller cancels first returns a nil response and "context canceled".
C19_Deadline ==
    \A i \in Slots : calls[i].sent >= 1 =>
        /\ calls[i].deadline = TimeLimit(i)
        /\ calls[i].elapsed <= TimeLimit(i)
        /\ Delivered(i) => calls[i].elapsed < TimeLimit(i)
        /\ (Returned(i) /\ calls[i].elapsed = TimeLimit(i)) =>
              calls[i].ret = Result(0, Err("context deadline exceeded"))
        /\ (Returned(i) /\ calls[i].ret.err.kind = "context deadline exceeded") =>
              calls[i].ret.res = 0 /\ calls[i].elapsed = TimeLimit(i)
        /\ (Returned(i) /\ calls[i].ret.err.kind = "context canceled") =>
              calls[i].ret.res = 0 /\ calls[i].elapsed < TimeLimit(i)

\* a timeout of 3 cut short by the caller's deadline of 2
C19_Witness ==
    \E i \in Slots : Returned(i) /\ snap[calls[i].client].timeout = 3
                     /\ calls[i].ctx = WithDeadline(2) /\ calls[i].elapsed = 2
                     /\ calls[i].ret = Result(0, Err("context deadline exceeded"))

\* Do returned a 5xx response, or no response at all
ServerFailure(i) == Delivered(i) /\ calls[i].res.StatusCode >= 500 /\ calls[i].res.StatusCode < 600
TransportFailure(i) ==
    Returned(i) /\ ~calls[i].delivered /\ calls[i].sent >= 1
    /\ calls[i].ret.err.kind \in TransportErrors

\* C20: no client retries: a call whose request failed, by a 5xx status or by
\* a transport error, has sent exactly one request, and what it returns is the
\* outcome of that request: the transport error with a nil response, or an
\* *HTTPError for that 5xx response (or, under a decoder, the failure to read
\* that response's body); a call that panicked on a 5xx response sent one too.
C20_NoRetry ==
    \A i \in Slots :
        /\ (ServerFailure(i) \/ TransportFailure(i)) => calls[i].sent = 1
        /\ (Handed(i) /\ calls[i].res.StatusCode >= 500) => calls[i].sent = 1
        /\ TransportFailure(i) => calls[i].ret.res = 0 /\ calls[i].ret.err.cause = "none"
        /\ ServerFailure(i) =>
              \/ /\ calls[i].ret.err.kind = "HTTPError"
                 /\ calls[i].ret.err.http = i
                 /\ calls[i].httpErr.Response = i
              \/ /\ calls[i].ret.err.kind = "failed to read error body"
                 /\ DecoderOf(i) # "nil"
                 /\ calls[i].ret.res = 0

\* a refused connection and a 500 status, each returned after one request
C20_Witness ==
    \E i \in Slots :
        /\ calls[i].sent = 1
        /\ \/ TransportFailure(i) /\ calls[i].ret.err.kind = "connection refused"
           \/ ServerFailure(i) /\ calls[i].ret.err.kind = "HTTPError"

\* the retry policy the call's client was built with
PolicyOf(i) == snap[calls[i].client].retry

RetryableFailure(i) ==
    \/ calls[i].lastStatus = 0
         /\ calls[i].ret.err.kind \in {"connection refused", "context deadline exceeded"}
    \/ calls[i].lastStatus >= 500 /\ calls[i].lastStatus < 600

\* the call returned a failure of the kinds the default policy retries
ReturnedRetryable(i) ==
    \/ ServerFailure(i)
    \/ TransportFailure(i)
         /\ calls[i].ret.err.kind \in {"connection refused", "context deadline exceeded"}

\* C22: with retries enabled, the call waits to retry only after a transport
\* failure or a status >= 500; below the ceiling such a failure is never what
\* the call returns; a request follows an earlier one only out of such a wait;
\* so a call whose attempt ends in a 2xx, a 3xx that is not followed, a 4xx or a
\* decode failure returns at once, with one request if it was the first attempt.
C22_Classification ==
    /\ [](\A i \in Slots : (calls[i].sent >= 1 /\ PolicyOf(i).enabled) =>
            /\ calls[i].pc = "backoff" => RetryableFailure(i)
            /\ (Returned(i) /\ calls[i].sent < PolicyOf(i).maxAttempts) =>
                  ~ReturnedRetryable(i))
    /\ [][\A i \in Slots :
            (calls[i].sent >= 1 /\ calls'[i].sent = calls[i].sent + 1) =>
                calls[i].pc = "backoff" /\ RetryableFailure(i)]_vars

\* a decode failure on a 200 response ends the call after one request
C22_Witness ==
    \E i \in Slots :
        /\ Returned(i) /\ calls[i].sent = 1 /\ PolicyOf(i).enabled
        /\ calls[i].delivered /\ DecoderOf(i) # "nil" /\ calls[i].output
        /\ calls[i].res.StatusCode = 200
        /\ calls[i].ret.err.kind = "failed to decode"

Cancelled(call) == call.ret.err.kind = "context canceled"

\* C24: the caller's cancellation, during an attempt or during the wait before
\* the next one, ends the call in that step with a nil response and the error
\* "context canceled", without another request; the failure a call waits to
\* retry is never a cancellation; and a call that has returned sends nothing more.
C24_CancellationWins ==
    /\ [](\A i \in Slots :
            /\ calls[i].pc = "backoff" => ~Cancelled(calls[i])
            /\ Cancelled(calls[i]) =>
                  /\ Returned(i) /\ ~calls[i].delivered
                  /\ calls[i].ret = Result(0, Err("context canceled")))
    /\ [][\A i \in Slots :
            /\ (Cancelled(calls'[i]) /\ ~Cancelled(calls[i])) =>
                  /\ calls[i].pc \in {"inflight", "backoff"}
                  /\ calls'[i].pc = "returned"
                  /\ calls'[i].sent = calls[i].sent
            /\ Returned(i) =>
                  \/ calls'[i] = IdleCall
                  \/ calls'[i].pc = "returned" /\ calls'[i].sent = calls[i].sent]_vars

\* cancelled while waiting after a first attempt that got a 500
C24_Witness ==
    \E i \in Slots :
        /\ Returned(i) /\ Cancelled(calls[i]) /\ calls[i].ret.res = 0
        /\ PolicyOf(i).enabled /\ calls[i].sent = 1 /\ calls[i].lastStatus = 500

\* C25: on a call with a non-nil input, each request sent with a body, the
\* first one and each re-send after a redirect, goes with exactly one more
\* invocation of the body opener, and its body is the bytes the encoder produced.
C25_OpenerOncePerAttempt ==
    [][\A i \in Slots :
          (calls'[i].input # "nil" /\ calls'[i].sent = calls[i].sent + 1) =>
              /\ calls'[i].getBodyCalls =
                    calls[i].getBodyCalls + (IF calls'[i].attempt.body # <<>> THEN 1 ELSE 0)
              /\ calls'[i].attempt.body # <<>> => calls'[i].attempt.body = calls'[i].req.body]_vars

\* the first request of a POST is in flight and the opener has been invoked twice
C25_Witness ==
    \E i \in Slots : calls[i].pc = "inflight" /\ calls[i].input # "nil"
                     /\ calls[i].sent = 1 /\ calls[i].getBodyCalls = 2

\* C26: a call with a nil input encodes nothing, whatever encoder the client
\* has: it neither fails nor panics before the request is sent, the request has
\* content length 0 and no body, and its headers are the client's own, with no
\* Content-Type or Content-Encoding put in by an encoder.
C26_NilInput ==
    \A i \in Slots : (calls[i].client # 0 /\ calls[i].input = "nil") =>
        /\ calls[i].pc \in {"inflight", "returned"}
        /\ calls[i].sent = 1
        /\ calls[i].req.ContentLength = 0
        /\ calls[i].req.body = <<>>
        /\ calls[i].attempt.body = <<>>
        /\ headers[calls[i].req.Header] = snap[calls[i].client].Header
        /\ headers[calls[i].req.Header]["Content-Encoding"] = Absent

\* POST nil on a client whose encoder is jsonEncoder under the gzip wrapper
C26_Witness ==
    \E i \in Slots : /\ Returned(i) /\ calls[i].input = "nil" /\ calls[i].method = "POST"
                     /\ EncoderOf(i) = <<"json", "gzip">>
                     /\ headers[calls[i].req.Header]["Content-Type"] = Absent

\* Do handed Call a response with status >= 300 on a client with a decoder,
\* and nothing goes wrong on the connection while its body is read
StatusErrorUnderDecoder(i) ==
    /\ calls[i].pc \in {"returned", "panic"} /\ calls[i].delivered
    /\ DecoderOf(i) # "nil" /\ Failed(i) /\ ~calls[i].res.Body.fail

\* C27: when the response has a status >= 300 and a decoder is configured, the
\* output is left as it was; Call returns the response and an *HTTPError that
\* holds the whole body; and the body of the returned response has been read to
\* its end and closed.
C27_ErrorBodyCaptured ==
    \A i \in Slots : StatusErrorUnderDecoder(i) =>
        /\ calls[i].out = Undecoded
        /\ Returned(i)
        /\ calls[i].ret = Result(i, [kind |-> "HTTPError", cause |-> "none", http |-> i])
        /\ calls[i].httpErr.hasBody /\ calls[i].httpErr.body = calls[i].res.Body.data
        /\ calls[i].res.Body.pos = Len(calls[i].res.Body.data)
        /\ calls[i].res.Body.closes = 1

\* a 404 of unknown length on a client with a decoder: Call panicked
C27_Witness ==
    \E i \in Slots : /\ StatusErrorUnderDecoder(i) /\ calls[i].pc = "panic"
                     /\ calls[i].res.StatusCode = 404 /\ ~calls[i].res.Body.known
                     /\ calls[i].out = Undecoded /\ calls[i].output

\* Call returned an *HTTPError
HTTPErrorReturned(i) == Returned(i) /\ calls[i].ret.err.kind = "HTTPError"

\* C30: an *HTTPError that Call returns holds a captured body and a decoder
\* exactly when the client has a decoder; the captured bytes are the whole body
\* of the response, which has been read to its end; without a decoder Call has
\* not touched the body of the response, Decode on the error panics on the nil
\* buffer and Body gives the text "<nil>", not the content.
C30_CapturedIffDecoder ==
    \A i \in Slots : HTTPErrorReturned(i) =>
        /\ calls[i].httpErr.Response = i /\ calls[i].ret.res = i
        /\ calls[i].httpErr.hasBody <=> DecoderOf(i) # "nil"
        /\ calls[i].httpErr.decoder = DecoderOf(i)
        /\ calls[i].httpErr.hasBody =>
              /\ calls[i].httpErr.body = calls[i].res.Body.data
              /\ calls[i].res.Body.pos = Len(calls[i].res.Body.data)
              /\ \A n \in 1..Len(calls[i].decodes) :
                    calls[i].decodes[n].body = calls[i].res.Body.data
        /\ ~calls[i].httpErr.hasBody =>
              /\ calls[i].httpErr.body = <<>>
              /\ calls[i].callerRead.done \/ (calls[i].res.Body.pos = 0 /\ ~calls[i].res.Body.touched)
              /\ calls[i].res.Body.closes = 0
              /\ \A n \in 1..Len(calls[i].decodes) :
                    /\ calls[i].decodes[n].res.err = "panic"
                    /\ calls[i].decodes[n].res.value = Undecoded
                    /\ calls[i].decodes[n].body = <<"<nil>">>

\* a 404 with a body on a client without a decoder, Decode tried on its error
C30_Witness ==
    \E i \in Slots : /\ HTTPErrorReturned(i) /\ DecoderOf(i) = "nil"
                     /\ calls[i].res.StatusCode = 404 /\ calls[i].res.Body.data = <<"[", "]">>
                     /\ Len(calls[i].decodes) >= 1 /\ calls[i].decodes[1].res.err = "panic"

\* gzip.NewReader over a compressed body: the bytes that were compressed
Gunzip(b) == IF b # <<>> /\ Head(b) = "GZ" THEN Tail(b) ELSE <<"not gzip">>

\* what jsonEncoder alone makes of the call's input
Plain(i) == jsonEncoder(calls[i].input)

\* C28: on a client whose encoder is jsonEncoder under the GzipRequests wrapper,
\* a call with an input whose encoding is at least 1024 bytes sends the gzip
\* compression of it, with the compressed length as content length and the
\* header Content-Encoding: gzip next to the encoder's Content-Type, and
\* decompressing gives the encoding back; a shorter encoding is sent as it is,
\* without Content-Encoding; an input the encoder refuses fails the call with
\* the encoder's error, as it does without the wrapper, and nothing is sent.
\* GzipRequests applied before EncodeJSON wraps nothing that is used.
C28_Gzip ==
    \A i \in Slots : (calls[i].client # 0 /\ calls[i].input # "nil") =>
        LET enc == EncoderOf(i)
            hdr == headers[calls[i].req.Header]
            sent == calls[i].sent >= 1
        IN /\ (enc \in {<<"json">>, <<"json", "gzip">>} /\ Plain(i).err # "nil") =>
                 /\ calls[i].sent = 0
                 /\ calls[i].ret = Result(0, Wrap("failed to encode", Plain(i).err))
           /\ (enc \in {<<"json">>, <<"json", "gzip">>} /\ Plain(i).err = "nil") => sent
           /\ (sent /\ enc = <<"json", "gzip">> /\ Plain(i).ContentLength >= GzipThreshold) =>
                 /\ calls[i].req.body = Gzip(Plain(i).body)
                 /\ Gunzip(calls[i].attempt.body) = Plain(i).body
                 /\ calls[i].req.ContentLength = ByteLen(calls[i].req.body)
                 /\ hdr["Content-Encoding"] = "gzip"
                 /\ hdr["Content-Type"] = Plain(i).Header["Content-Type"]
           /\ (sent /\ (enc = <<"json">> \/ Plain(i).ContentLength < GzipThreshold)) =>
                 /\ calls[i].req.body = Plain(i).body
                 /\ calls[i].attempt.body = Plain(i).body
                 /\ calls[i].req.ContentLength = Plain(i).ContentLength
                 /\ hdr["Content-Encoding"] = Absent

\* an encoding of exactly 1024 bytes went out compressed
C28_Witness ==
    \E i \in Slots : /\ Returned(i) /\ calls[i].sent = 1 /\ calls[i].input = "at"
                     /\ EncoderOf(i) = <<"json", "gzip">>
                     /\ Plain(i).ContentLength = GzipThreshold
                     /\ calls[i].req.body = Gzip(Plain(i).body)
                     /\ headers[calls[i].req.Header]["Content-Encoding"] = "gzip"

\* the DecodeJSON and DontDecode options of a list, in the order given
DecodingOptions(opts) == SelectSeq(opts, LAMBDA o : o \in {DecodeJSON, DontDecode})

AcceptOf(k) == headers[clients[k].Header]["Accept"]

\* C29: after New or Derive with any sequence of DecodeJSON and DontDecode (and
\* no SetHeader on Accept) a client carries Accept: application/json exactly when
\* it has a decoder; the last of the two options applied decides, a client
\* derived with neither keeps its parent's; a client whose decoder was removed
\* sends no Accept header and decodes nothing, also when its parent decodes.
C29_AcceptIffDecoder ==
    /\ [](/\ \A k \in 1..Len(clients) :
                /\ AcceptOf(k) \in {Absent, "application/json"}
                /\ AcceptOf(k) = "application/json" <=> clients[k].decoder # "nil"
          /\ \A i \in Slots :
                (calls[i].client # 0 /\ DecoderOf(i) = "nil") =>
                   /\ calls[i].out = Undecoded
                   /\ calls[i].decodes = <<>>
                   /\ calls[i].sent >= 1 => headers[calls[i].req.Header]["Accept"] = Absent)
    /\ [][\A opts \in AcceptLists :
             (New(opts) \/ \E p \in 1..Len(clients) : Derive(p, opts)) =>
                LET k == Len(clients')
                    d == DecodingOptions(opts)
                    c == clients'[k]
                IN IF d # <<>>
                   THEN c.decoder = (IF d[Len(d)] = DecodeJSON THEN "json" ELSE "nil")
                   ELSE c.decoder = (IF c.parent = 0 THEN "nil" ELSE clients[c.parent].decoder)]_vars

\* a client derived with DontDecode from a parent that decodes received a JSON
\* response to a request it sent
C29_Witness ==
    \E i \in Slots :
        /\ Delivered(i)
        /\ calls[i].sent >= 1
        /\ Succeeded(i)
        /\ clients[calls[i].client].parent # 0
        /\ clients[clients[calls[i].client].parent].decoder = "json"
        /\ AcceptOf(clients[calls[i].client].parent) = "application/json"
        /\ DecoderOf(i) = "nil"
        /\ AcceptOf(calls[i].client) = Absent
        /\ headers[calls[i].req.Header]["Accept"] = Absent

====
